---- MODULE Spec2Model ----
(***************************************************************************)
(* Referral loop closure: the matching engine, the Task state machine, the *)
(* consent routing of processEncounter and the in-memory store they work   *)
(* on.                                                                     *)
(*                                                                         *)
(* Conventions of the model                                                *)
(*  - A JavaScript string that the code inspects character by character    *)
(*    (organization names) is a sequence of one-character strings.         *)
(*  - An ISO timestamp is a sequence of naturals compared the way the code *)
(*    compares them, as strings: <<day>> is a date-only string             *)
(*    ("2026-04-01"), <<day, tick>> a full date-time of that day, and a    *)
(*    date-only string is a proper prefix of every date-time of its day.   *)
(*  - A match score is the exact rational [num, den] of the sum the code   *)
(*    computes in floating point; weights are in hundredths.               *)
(*  - A Map is a sequence of records in insertion order when the code      *)
(*    iterates it (tasks), and a function on its keys otherwise.           *)
(*  - undefined / null / a missing optional field is None for a string,    *)
(*    <<>> for a name, a timestamp, a reference or a list; an optional     *)
(*    record r is <<>> or <<r>>.                                           *)
(*  - ret holds the name of the last call, its input and what it returned. *)
(***************************************************************************)
EXTENDS Integers, Sequences, FiniteSets, TLC

None == "undefined"

\* ------------------------------------------------------------------------
\* Bounds of the model
\* ------------------------------------------------------------------------

\* The clock (Date.now()) ticks from 0 to MaxNow (and may leap to FarFuture).
MaxNow == 3

\* Clock ticks per calendar day: ticks of one day share their date-only prefix.
TicksPerDay == 2

\* POST /physician/referral is called at most MaxCreated times.
MaxCreated == 2

\* ------------------------------------------------------------------------
\* Strings as character sequences; src/matching/fuzzy.ts
\* ------------------------------------------------------------------------

UpperChars == <<"A","B","C","D","E","F","G","H","I","J","K","L","M",
                "N","O","P","Q","R","S","T","U","V","W","X","Y","Z">>
LowerChars == <<"a","b","c","d","e","f","g","h","i","j","k","l","m",
                "n","o","p","q","r","s","t","u","v","w","x","y","z">>


\* No lower-casing at all.
toLowerCaseKeepingCase(c) == c

toLowerCase(c) ==
  IF \E i \in 1..Len(UpperChars) : UpperChars[i] = c
  THEN LowerChars[CHOOSE i \in 1..Len(UpperChars) : UpperChars[i] = c]
  ELSE c

\* The character class of normalizeName's replace: . ' , - / \ ( )
Punctuation == {".", "'", ",", "-", "/", "\\", "(", ")"}

Whitespace == {" "}

STRIP_TERMS == {
  <<"l","l","c">>, <<"i","n","c">>, <<"c","o","r","p">>,
  <<"c","o","r","p","o","r","a","t","i","o","n">>,
  <<"a","s","s","o","c","i","a","t","e","s">>, <<"a","s","s","o","c">>,
  <<"g","r","o","u","p">>, <<"m","e","d","i","c","a","l">>, <<"m","e","d">>,
  <<"c","e","n","t","e","r">>, <<"c","e","n","t","r","e">>,
  <<"c","l","i","n","i","c">>,
  <<"p","a">>, <<"p","c">>, <<"m","d">>, <<"d","o">>, <<"d","d","s">>,
  <<"d","p","m">>, <<"h","e","a","l","t","h","c","a","r","e">>,
  <<"h","e","a","l","t","h">>, <<"s","e","r","v","i","c","e","s">>,
  <<"p","r","a","c","t","i","c","e">>, <<"p","a","r","t","n","e","r","s">>,
  <<"p","l","l","c">>, <<"l","t","d">> }

\* s.split(/\s+/).filter(Boolean)
RECURSIVE SplitFrom(_, _, _, _)
SplitFrom(s, i, done, cur) ==
  IF i > Len(s)
  THEN (IF cur = <<>> THEN done ELSE Append(done, cur))
  ELSE IF s[i] \in Whitespace
       THEN SplitFrom(s, i + 1, IF cur = <<>> THEN done ELSE Append(done, cur), <<>>)
       ELSE SplitFrom(s, i + 1, done, Append(cur, s[i]))

Tokens(s) == SplitFrom(s, 1, <<>>, <<>>)

\* tokens.join(" ")
RECURSIVE JoinFrom(_, _)
JoinFrom(toks, i) ==
  IF i > Len(toks) THEN <<>>
  ELSE IF i = Len(toks) THEN toks[i]
  ELSE toks[i] \o <<" ">> \o JoinFrom(toks, i + 1)

Join(toks) == JoinFrom(toks, 1)

RECURSIVE FilterSeq(_, _)
FilterSeq(toks, keep) ==
  IF toks = <<>> THEN <<>>
  ELSE IF Head(toks) \in keep
       THEN <<Head(toks)>> \o FilterSeq(Tail(toks), keep)
       ELSE FilterSeq(Tail(toks), keep)

SeqRange(q) == {q[i] : i \in 1..Len(q)}

normalizeName(name) ==
  LET n == [i \in 1..Len(name) |->
              LET c == toLowerCase(name[i])
              IN IF c \in Punctuation THEN " " ELSE c]
      tokens == Tokens(n)
      filtered == FilterSeq(tokens, SeqRange(tokens) \ STRIP_TERMS)
  IN Join(IF Len(filtered) > 0 THEN filtered ELSE tokens)

Min3(x, y, z) ==
  IF x <= y THEN (IF x <= z THEN x ELSE z) ELSE (IF y <= z THEN y ELSE z)


\* A row loop that always takes the edit branch, never the equal-characters
\* branch of line 54.
RECURSIVE LevRowWithoutMatch(_, _, _, _, _)
LevRowWithoutMatch(a, b, i, prev, curr) ==
  IF Len(curr) = Len(b) + 1 THEN curr
  ELSE LET j == Len(curr)
       IN LevRowWithoutMatch(a, b, i, prev,
                 Append(curr, 1 + Min3(prev[j], prev[j + 1], curr[j])))

\* One row of the single-row dynamic programme: curr holds curr[0..j-1] of
\* the code at positions 1..j, prev holds prev[0..n] at positions 1..n+1.
RECURSIVE LevRow(_, _, _, _, _)
LevRow(a, b, i, prev, curr) ==
  IF Len(curr) = Len(b) + 1 THEN curr
  ELSE LET j == Len(curr)
       IN LevRow(a, b, i, prev,
                 Append(curr,
                        IF a[i] = b[j] THEN prev[j]
                        ELSE 1 + Min3(prev[j], prev[j + 1], curr[j])))

RECURSIVE LevRows(_, _, _, _)
LevRows(a, b, i, prev) ==
  IF i > Len(a) THEN prev
  ELSE LevRows(a, b, i + 1, LevRow(a, b, i, prev, <<i>>))

levenshteinDistance(a, b) ==
  LET m == Len(a)
      n == Len(b)
  IN IF m = 0 THEN n
     ELSE IF n = 0 THEN m
     ELSE LevRows(a, b, 1, [j \in 1..(n + 1) |-> j - 1])[n + 1]

\* A similarity is the rational num/den, den > 0.
Rat(n, d) == [num |-> n, den |-> d]
RatGE(x, y) == x.num * y.den >= y.num * x.den
RatMax(x, y) == IF RatGE(x, y) THEN x ELSE y

tokenJaccard(a, b) ==
  LET setA == SeqRange(Tokens(a))
      setB == SeqRange(Tokens(b))
  IN IF setA = {} /\ setB = {} THEN Rat(0, 1)
     ELSE Rat(Cardinality(setA \cap setB), Cardinality(setA \cup setB))

fuzzyNameMatch(a, b) ==
  LET na == normalizeName(a)
      nb == normalizeName(b)
      maxLen == IF Len(na) >= Len(nb) THEN Len(na) ELSE Len(nb)
      levenSim == IF maxLen = 0 THEN Rat(1, 1)
                  ELSE Rat(maxLen - levenshteinDistance(na, nb), maxLen)
  IN IF na = nb THEN Rat(1, 1)
     ELSE RatMax(tokenJaccard(na, nb), levenSim)

\* ------------------------------------------------------------------------
\* Timestamps and references
\* ------------------------------------------------------------------------

\* JavaScript's < on two ISO strings: lexicographic, a proper prefix first.
RECURSIVE StrLT(_, _)
StrLT(a, b) ==
  IF b = <<>> THEN FALSE
  ELSE IF a = <<>> THEN TRUE
  ELSE IF Head(a) # Head(b) THEN Head(a) < Head(b)
  ELSE StrLT(Tail(a), Tail(b))

StrLE(a, b) == a = b \/ StrLT(a, b)

\* new Date(n).toISOString()
toISOString(n) == <<n \div TicksPerDay, n % TicksPerDay>>

\* iso.split("T")[0]
DatePart(iso) == <<iso[1]>>

\* A FHIR reference "Type/id" is the pair <<Type, id>>.
Ref(type, id) == <<type, id>>

\* ref.replace("Type/", ""): the id when the prefix is there, else the
\* reference unchanged.
StripPrefix(ref, type) ==
  IF ref[1] = type THEN ref[2] ELSE ref[1] \o "/" \o ref[2]

NPI_SYSTEM == "http://hl7.org/fhir/sid/us-npi"

TARGET_EXT_URL ==
  "http://example.org/fhir/StructureDefinition/referral-target-identifiers"

\* JavaScript truthiness of an optional string: undefined and "" are falsy.
\* (An optional character sequence or timestamp is absent as <<>>, an
\* optional record r is <<>> or <<r>>.)
Truthy(v) == v # None /\ v # ""

\* ------------------------------------------------------------------------
\* Reference data of seedDemoData: organizations, practitioners, roles
\* ------------------------------------------------------------------------

NameMercy == <<"M","G","H">>
NameMercyPC == <<"M","G","H"," ","P","C">>
NameMercyTypo == <<"M","G","A">>
NameValley == <<"V","C","A">>

organizations ==
  [id \in {"mercy-hospital", "org-valley-cardiology"} |->
     IF id = "mercy-hospital"
     THEN [id |-> id, name |-> NameMercy,
           identifier |-> <<[system |-> NPI_SYSTEM, value |-> "1538246790"]>>]
     ELSE [id |-> id, name |-> NameValley,
           identifier |-> <<[system |-> NPI_SYSTEM, value |-> "1122334455"]>>]]

practitioners ==
  [id \in {"dr-smith", "dr-johnson"} |->
     IF id = "dr-smith"
     THEN [id |-> id,
           identifier |-> <<[system |-> NPI_SYSTEM, value |-> "1234567890"]>>]
     ELSE [id |-> id,
           identifier |-> <<[system |-> NPI_SYSTEM, value |-> "9876543210"]>>]]

practitionerRoles ==
  <<[id |-> "role-cardio",
     practitioner |-> Ref("Practitioner", "dr-johnson"),
     organization |-> Ref("Organization", "org-valley-cardiology"),
     specialty |-> "207RC0000X"]>>

\* identifier?.find(i => i.system === NPI)?.value
NpiOf(identifier) ==
  IF \E i \in 1..Len(identifier) : identifier[i].system = NPI_SYSTEM
  THEN identifier[CHOOSE i \in 1..Len(identifier) :
                    /\ identifier[i].system = NPI_SYSTEM
                    /\ \A k \in 1..(i - 1) : identifier[k].system # NPI_SYSTEM].value
  ELSE None

orgNpiLookup(ref) ==
  LET id == StripPrefix(ref, "Organization")
  IN IF id \in DOMAIN organizations THEN NpiOf(organizations[id].identifier)
     ELSE None

practitionerNpiLookup(ref) ==
  LET id == StripPrefix(ref, "Practitioner")
  IN IF id \in DOMAIN practitioners THEN NpiOf(practitioners[id].identifier)
     ELSE None

specialtyLookup(ref) ==
  IF \E i \in 1..Len(practitionerRoles) : practitionerRoles[i].practitioner = ref
  THEN practitionerRoles[
         CHOOSE i \in 1..Len(practitionerRoles) :
           /\ practitionerRoles[i].practitioner = ref
           /\ \A k \in 1..(i - 1) : practitionerRoles[k].practitioner # ref].specialty
  ELSE None

\* ------------------------------------------------------------------------
\* Resource factories
\* ------------------------------------------------------------------------

\* The target-identifier sub-extensions makeServiceRequest pushes, in order.
TargetExtensions(input) ==
  (IF Truthy(input.targetOrgNpi)
   THEN <<[url |-> "organizationNpi", valueString |-> input.targetOrgNpi,
           valueCoding |-> None]>> ELSE <<>>)
  \o (IF input.targetOrgName # <<>>
      THEN <<[url |-> "organizationName", valueString |-> input.targetOrgName,
              valueCoding |-> None]>> ELSE <<>>)
  \o (IF Truthy(input.targetPractitionerNpi)
      THEN <<[url |-> "practitionerNpi",
              valueString |-> input.targetPractitionerNpi,
              valueCoding |-> None]>> ELSE <<>>)
  \o (IF Truthy(input.targetSpecialtyCode)
      THEN <<[url |-> "specialty", valueString |-> None,
              valueCoding |-> [code |-> input.targetSpecialtyCode]]>> ELSE <<>>)

makeServiceRequest(input) ==
  [id |-> input.id,
   subject |-> Ref("Patient", input.patientId),
   requester |-> Ref("Practitioner", input.requesterId),
   occurrencePeriod |-> <<[start |-> input.occurrenceStart,
                           end |-> input.occurrenceEnd]>>,
   extension |-> IF Len(TargetExtensions(input)) > 0
                 THEN <<[url |-> TARGET_EXT_URL,
                         extension |-> TargetExtensions(input)]>>
                 ELSE <<>>]

makeTask(input) ==
  [id |-> input.id,
   status |-> "requested",
   focus |-> Ref("ServiceRequest", input.serviceRequestId),
   for |-> Ref("Patient", input.patientId),
   lastModified |-> input.authoredOn,
   restriction |-> [period |-> [end |-> input.dueDate]],
   businessStatus |-> "awaiting-scheduling",
   output |-> <<>>]

\* ------------------------------------------------------------------------
\* Matching engine; src/matching/engine.ts
\* ------------------------------------------------------------------------

\* Scoring weights and thresholds, in hundredths.
W_orgNpi == 35
W_orgName == 20
W_practitionerNpi == 25
W_specialty == 10
W_dateInWindow == 10
MIN_SCORE_THRESHOLD == 10
HIGH_CONFIDENCE == 70
MEDIUM_CONFIDENCE == 40

\* score >= h/100 for a score num/den
ScoreGE(score, h) == score.num * 100 >= h * score.den

\* array.find(e => e.url === url), as <<>> or <<e>>
FindByUrl(exts, url) ==
  IF \E i \in 1..Len(exts) : exts[i].url = url
  THEN <<exts[CHOOSE i \in 1..Len(exts) :
                /\ exts[i].url = url
                /\ \A k \in 1..(i - 1) : exts[k].url # url]>>
  ELSE <<>>

getTargetIdentifiers(sr) ==
  LET targetExt == FindByUrl(sr.extension, TARGET_EXT_URL)
      sub(url) == FindByUrl(targetExt[1].extension, url)
  IN IF targetExt = <<>>
     THEN [orgNpi |-> None, orgName |-> <<>>, practitionerNpi |-> None,
           specialtyCode |-> None]
     ELSE [orgNpi |-> IF sub("organizationNpi") = <<>> THEN None
                      ELSE sub("organizationNpi")[1].valueString,
           orgName |-> IF sub("organizationName") = <<>> THEN <<>>
                       ELSE sub("organizationName")[1].valueString,
           practitionerNpi |-> IF sub("practitionerNpi") = <<>> THEN None
                               ELSE sub("practitionerNpi")[1].valueString,
           specialtyCode |-> IF sub("specialty") = <<>> THEN None
                             ELSE sub("specialty")[1].valueCoding.code]

\* context.lookup?.(ref): a lookup is a function on references; a lookup the
\* context does not supply is the empty function.
Apply(lookup, ref) == IF ref \in DOMAIN lookup THEN lookup[ref] ELSE None


\* The embedded identifier is taken first and the lookup only as a fallback.
EncounterInfoEmbeddedFirst(encounter, context) ==
  LET sp == encounter.serviceProvider[1]
      ind == encounter.participant
      encPractRef == IF ind = <<>> THEN <<>> ELSE ind[1].reference
      embeddedNpi == IF ind # <<>> /\ ind[1].identifier # <<>>
                        /\ ind[1].identifier[1].system = NPI_SYSTEM
                     THEN ind[1].identifier[1].value ELSE None
      looked == IF encPractRef # <<>>
                THEN Apply(context.practitionerNpiLookup, encPractRef) ELSE None
  IN [encOrgName |-> sp.display,
      encOrgNpi |-> IF sp.reference # <<>>
                    THEN Apply(context.orgNpiLookup, sp.reference) ELSE None,
      encPractNpi |-> IF Truthy(embeddedNpi) THEN embeddedNpi ELSE looked,
      encSpecialty |-> IF encPractRef # <<>>
                       THEN Apply(context.specialtyLookup, encPractRef) ELSE None,
      encDate |-> encounter.period.start]

\* What the loop of matchEncounterToReferrals reads off the encounter.
EncounterInfo(encounter, context) ==
  LET sp == encounter.serviceProvider[1]
      ind == encounter.participant
      encPractRef == IF ind = <<>> THEN <<>> ELSE ind[1].reference
      embeddedNpi == IF ind # <<>> /\ ind[1].identifier # <<>>
                        /\ ind[1].identifier[1].system = NPI_SYSTEM
                     THEN ind[1].identifier[1].value ELSE None
      looked == IF encPractRef # <<>>
                THEN Apply(context.practitionerNpiLookup, encPractRef) ELSE None
  IN [encOrgName |-> sp.display,
      encOrgNpi |-> IF sp.reference # <<>>
                    THEN Apply(context.orgNpiLookup, sp.reference) ELSE None,
      encPractNpi |-> IF Truthy(looked) THEN looked ELSE embeddedNpi,
      encSpecialty |-> IF encPractRef # <<>>
                       THEN Apply(context.specialtyLookup, encPractRef) ELSE None,
      encDate |-> encounter.period.start]

\* The signals of one referral against the encounter.
Signals(info, targets, sr) ==
  [orgNpi |-> Truthy(targets.orgNpi) /\ Truthy(info.encOrgNpi)
              /\ targets.orgNpi = info.encOrgNpi,
   orgName |-> IF targets.orgName # <<>> /\ info.encOrgName # <<>>
               THEN fuzzyNameMatch(targets.orgName, info.encOrgName)
               ELSE Rat(0, 1),
   practitionerNpi |-> Truthy(targets.practitionerNpi) /\ Truthy(info.encPractNpi)
                       /\ targets.practitionerNpi = info.encPractNpi,
   specialty |-> Truthy(targets.specialtyCode) /\ Truthy(info.encSpecialty)
                 /\ targets.specialtyCode = info.encSpecialty,
   dateInWindow |->
     /\ info.encDate # <<>>
     /\ sr.occurrencePeriod # <<>>
     /\ LET windowStart == sr.occurrencePeriod[1].start
            windowEnd == sr.occurrencePeriod[1].end
        IN /\ (windowStart = <<>> \/ StrLE(windowStart, info.encDate))
           /\ (windowEnd = <<>> \/ StrLE(info.encDate, windowEnd))]

\* Mutant of ScoreOf: the specialty signal adds nothing.
ScoreOfWithoutSpecialty(sig) ==
  LET fixed == (IF sig.orgNpi THEN W_orgNpi ELSE 0)
               + (IF sig.practitionerNpi THEN W_practitionerNpi ELSE 0)
               + (IF sig.dateInWindow THEN W_dateInWindow ELSE 0)
  IN Rat(fixed * sig.orgName.den + W_orgName * sig.orgName.num,
         100 * sig.orgName.den)

\* score: the sum of the weights of the signals, as the rational num/den
ScoreOf(sig) ==
  LET fixed == (IF sig.orgNpi THEN W_orgNpi ELSE 0)
               + (IF sig.practitionerNpi THEN W_practitionerNpi ELSE 0)
               + (IF sig.specialty THEN W_specialty ELSE 0)
               + (IF sig.dateInWindow THEN W_dateInWindow ELSE 0)
  IN Rat(fixed * sig.orgName.den + W_orgName * sig.orgName.num,
         100 * sig.orgName.den)

\* Mutant of ConfidenceOf: a score of 0.40 itself is not yet medium.
ConfidenceOfAboveMedium(score) ==
  IF ScoreGE(score, HIGH_CONFIDENCE) THEN "high"
  ELSE IF score.num * 100 > MEDIUM_CONFIDENCE * score.den THEN "medium"
  ELSE "low"

ConfidenceOf(score) ==
  IF ScoreGE(score, HIGH_CONFIDENCE) THEN "high"
  ELSE IF ScoreGE(score, MEDIUM_CONFIDENCE) THEN "medium"
  ELSE "low"

\* Mutant of ResultFor: a referral without targets is scored like the others.
ResultForWithoutSkip(info, referral) ==
  LET targets == getTargetIdentifiers(referral.serviceRequest)
      sig == Signals(info, targets, referral.serviceRequest)
      score == ScoreOf(sig)
  IN IF ScoreGE(score, MIN_SCORE_THRESHOLD)
     THEN <<[serviceRequestId |-> referral.serviceRequest.id,
             taskId |-> referral.task.id,
             score |-> score,
             confidence |-> ConfidenceOf(score),
             signals |-> sig]>>
     ELSE <<>>

\* Mutant of ResultFor: a result is pushed whatever its score.
ResultForAnyScore(info, referral) ==
  LET targets == getTargetIdentifiers(referral.serviceRequest)
      sig == Signals(info, targets, referral.serviceRequest)
      score == ScoreOf(sig)
  IN IF ~Truthy(targets.orgNpi) /\ targets.orgName = <<>>
        /\ ~Truthy(targets.practitionerNpi)
     THEN <<>>
     ELSE <<[serviceRequestId |-> referral.serviceRequest.id,
             taskId |-> referral.task.id,
             score |-> score,
             confidence |-> ConfidenceOf(score),
             signals |-> sig]>>

\* The result one referral contributes: <<>> when it is skipped or scores
\* below MIN_SCORE_THRESHOLD.
ResultFor(info, referral) ==
  LET targets == getTargetIdentifiers(referral.serviceRequest)
      sig == Signals(info, targets, referral.serviceRequest)
      score == ScoreOf(sig)
  IN IF ~Truthy(targets.orgNpi) /\ targets.orgName = <<>>
        /\ ~Truthy(targets.practitionerNpi)
     THEN <<>>
     ELSE IF ScoreGE(score, MIN_SCORE_THRESHOLD)
     THEN <<[serviceRequestId |-> referral.serviceRequest.id,
             taskId |-> referral.task.id,
             score |-> score,
             confidence |-> ConfidenceOf(score),
             signals |-> sig]>>
     ELSE <<>>

RECURSIVE CollectResults(_, _)
CollectResults(info, referrals) ==
  IF referrals = <<>> THEN <<>>
  ELSE ResultFor(info, Head(referrals)) \o CollectResults(info, Tail(referrals))

\* Mutant of SortByScore: the results stay in the order of the referrals.
SortByScoreKeepingOrder(results) == results

\* results.sort((a, b) => b.score - a.score): stable, best score first.
RECURSIVE SortByScore(_)
SortByScore(results) ==
  IF results = <<>> THEN <<>>
  ELSE LET r == results[Len(results)]
           front == SortByScore(SubSeq(results, 1, Len(results) - 1))
           \* r goes behind every earlier result that scores at least r's
           k == Cardinality({i \in 1..Len(front) : RatGE(front[i].score, r.score)})
       IN SubSeq(front, 1, k) \o <<r>> \o SubSeq(front, k + 1, Len(front))

\* Mutant of matchEncounterToReferrals: an encounter without service
\* provider is scored as one whose provider has neither reference nor name.
matchEncounterToReferralsUnguarded(encounter, openReferrals, context) ==
  SortByScore(
    CollectResults(
      EncounterInfo(IF encounter.serviceProvider = <<>>
                    THEN [encounter EXCEPT
                            !.serviceProvider = <<[reference |-> <<>>,
                                                   display |-> <<>>]>>]
                    ELSE encounter,
                    context),
      openReferrals))

matchEncounterToReferrals(encounter, openReferrals, context) ==
  IF encounter.serviceProvider = <<>> THEN <<>>
  ELSE SortByScore(CollectResults(EncounterInfo(encounter, context),
                                  openReferrals))

\* ------------------------------------------------------------------------
\* The store; src/store.ts
\* ------------------------------------------------------------------------

VARIABLES
  tasks,               \* Map<string, Task>, in insertion order
  serviceRequests,     \* Map<string, ServiceRequest>
  encounters,          \* Map<string, Encounter>
  sharingPreferences,  \* Map<`${patientId}:${physicianRef}`, SharingPreference>
  routedEvents,        \* RoutedEvent[]
  brokerSessions,      \* Map<patientId, BrokerSession>, in insertion order
  now,                 \* the clock, Date.now()
  created,             \* number of POST /physician/referral calls served
  sseClients,          \* SSEClient[]: id n stands for `sse-${n}`
  streams,             \* the ReadableStream of each client created, by id
  onboardingStates,    \* Map<patientId, OnboardingState>: the object held
  stateObjects,        \* the OnboardingState objects ever created
  inflight,            \* the wizard handlers suspended at an await
  stepsDone,           \* the steps answered 200 since the last step 1
  ret                  \* the last call: its name, its input, what it returned

vars == <<tasks, serviceRequests, encounters, sharingPreferences, routedEvents,
          brokerSessions, now, created, sseClients, streams, onboardingStates,
          stateObjects, inflight, stepsDone, ret>>

sseVars == <<sseClients, streams>>

onboardingVars == <<onboardingStates, stateObjects, inflight, stepsDone>>

TerminalStatuses == {"completed", "failed", "cancelled"}

EncounterStatuses ==
  {"planned", "arrived", "triaged", "in-progress", "onleave", "finished",
   "cancelled"}

\* Index of the entry with this id in an insertion-ordered Map, 0 if none.
IndexOf(map, id) ==
  IF \E i \in 1..Len(map) : map[i].id = id
  THEN CHOOSE i \in 1..Len(map) : map[i].id = id
  ELSE 0

\* map.set(value.id, value): replaces in place, or appends.
MapSet(map, value) ==
  IF IndexOf(map, value.id) = 0 THEN Append(map, value)
  ELSE [map EXCEPT ![IndexOf(map, value.id)] = value]

\* `${type}/${id}` as the string the preference key is built from
RefString(ref) == ref[1] \o "/" \o ref[2]

\* Mutant of resolvePatientId: the last session with that sourceId wins.
resolvePatientIdOfLast(ehrPatientId) ==
  IF \E i \in 1..Len(brokerSessions) : brokerSessions[i].sourceId = ehrPatientId
  THEN brokerSessions[
         CHOOSE i \in 1..Len(brokerSessions) :
           /\ brokerSessions[i].sourceId = ehrPatientId
           /\ \A k \in (i + 1)..Len(brokerSessions) :
                brokerSessions[k].sourceId # ehrPatientId
       ].patientId
  ELSE ehrPatientId

resolvePatientId(ehrPatientId) ==
  IF \E i \in 1..Len(brokerSessions) : brokerSessions[i].sourceId = ehrPatientId
  THEN brokerSessions[
         CHOOSE i \in 1..Len(brokerSessions) :
           /\ brokerSessions[i].sourceId = ehrPatientId
           /\ \A k \in 1..(i - 1) : brokerSessions[k].sourceId # ehrPatientId
       ].patientId
  ELSE ehrPatientId

\* Mutant of OpenFrom: the filter forgets the cancelled status.
RECURSIVE OpenFromKeepingCancelled(_, _)
OpenFromKeepingCancelled(ts, patientId) ==
  IF ts = <<>> THEN <<>>
  ELSE LET task == Head(ts)
           srId == StripPrefix(task.focus, "ServiceRequest")
       IN (IF /\ task.for = Ref("Patient", patientId)
              /\ task.status # "completed"
              /\ task.status # "failed"
              /\ srId \in DOMAIN serviceRequests
           THEN <<[serviceRequest |-> serviceRequests[srId], task |-> task]>>
           ELSE <<>>)
          \o OpenFromKeepingCancelled(Tail(ts), patientId)


\* The open referrals of every patient, whoever is asked for.
RECURSIVE OpenFromAnyPatient(_, _)
OpenFromAnyPatient(ts, patientId) ==
  IF ts = <<>> THEN <<>>
  ELSE LET task == Head(ts)
           srId == StripPrefix(task.focus, "ServiceRequest")
       IN (IF /\ task.status # "completed"
              /\ task.status # "cancelled"
              /\ task.status # "failed"
              /\ srId \in DOMAIN serviceRequests
           THEN <<[serviceRequest |-> serviceRequests[srId], task |-> task]>>
           ELSE <<>>)
          \o OpenFromAnyPatient(Tail(ts), patientId)

RECURSIVE OpenFrom(_, _)
OpenFrom(ts, patientId) ==
  IF ts = <<>> THEN <<>>
  ELSE LET task == Head(ts)
           srId == StripPrefix(task.focus, "ServiceRequest")
       IN (IF /\ task.for = Ref("Patient", patientId)
              /\ task.status # "completed"
              /\ task.status # "cancelled"
              /\ task.status # "failed"
              /\ srId \in DOMAIN serviceRequests
           THEN <<[serviceRequest |-> serviceRequests[srId], task |-> task]>>
           ELSE <<>>)
          \o OpenFrom(Tail(ts), patientId)

getOpenReferrals(patientId) == OpenFrom(tasks, patientId)

PrefKey(patientId, physicianRef) == patientId \o ":" \o RefString(physicianRef)

\* <<>> when the map has no entry for the pair
getSharingPreference(patientId, physicianRef) ==
  IF PrefKey(patientId, physicianRef) \in DOMAIN sharingPreferences
  THEN <<sharingPreferences[PrefKey(patientId, physicianRef)]>>
  ELSE <<>>

\* Mutant of setSharingPreference: the key is the patient alone.
setSharingPreferenceByPatient(pref) ==
  [k \in {j \in DOMAIN sharingPreferences :
            sharingPreferences[j].patientId # pref.patientId}
         \cup {PrefKey(pref.patientId, pref.physicianRef)}
     |-> IF k = PrefKey(pref.patientId, pref.physicianRef) THEN pref
         ELSE sharingPreferences[k]]

\* The map after sharingPreferences.set(key, pref)
setSharingPreference(pref) ==
  [k \in DOMAIN sharingPreferences \cup {PrefKey(pref.patientId, pref.physicianRef)}
     |-> IF k = PrefKey(pref.patientId, pref.physicianRef) THEN pref
         ELSE sharingPreferences[k]]

\* ------------------------------------------------------------------------
\* Task state machine and overdue check; portal/routing.ts
\* ------------------------------------------------------------------------

\* Mutant of TaskAfterEncounter: "arrived" is missing from the list of the
\* second branch.
TaskAfterEncounterWithoutArrived(task, encounter, t) ==
  IF task.status = "completed" \/ task.status = "failed" THEN task
  ELSE IF encounter.status = "planned"
  THEN [task EXCEPT !.lastModified = t,
                    !.status = "in-progress",
                    !.businessStatus = "appointment-scheduled"]
  ELSE IF encounter.status \in {"in-progress", "triaged"}
  THEN [task EXCEPT !.lastModified = t,
                    !.status = "in-progress",
                    !.businessStatus = "encounter-in-progress"]
  ELSE IF encounter.status = "finished"
  THEN [task EXCEPT !.lastModified = t,
                    !.status = "completed",
                    !.businessStatus = "loop-closed",
                    !.output = Append(@, Ref("Encounter", encounter.id))]
  ELSE [task EXCEPT !.lastModified = t]

\* Mutant of TaskAfterEncounter: the guard forgets the failed status.
TaskAfterEncounterGuardingCompleted(task, encounter, t) ==
  IF task.status = "completed" THEN task
  ELSE IF encounter.status = "planned"
  THEN [task EXCEPT !.lastModified = t,
                    !.status = "in-progress",
                    !.businessStatus = "appointment-scheduled"]
  ELSE IF encounter.status \in {"in-progress", "arrived", "triaged"}
  THEN [task EXCEPT !.lastModified = t,
                    !.status = "in-progress",
                    !.businessStatus = "encounter-in-progress"]
  ELSE IF encounter.status = "finished"
  THEN [task EXCEPT !.lastModified = t,
                    !.status = "completed",
                    !.businessStatus = "loop-closed",
                    !.output = Append(@, Ref("Encounter", encounter.id))]
  ELSE [task EXCEPT !.lastModified = t]

\* The Task object after updateTaskForEncounter's body ran on it at time t.
\* Mutant of TaskAfterEncounter: a finished encounter leaves the Task open.
TaskAfterEncounterStayingOpen(task, encounter, t) ==
  IF task.status = "completed" \/ task.status = "failed" THEN task
  ELSE IF encounter.status = "planned"
  THEN [task EXCEPT !.lastModified = t,
                    !.status = "in-progress",
                    !.businessStatus = "appointment-scheduled"]
  ELSE IF encounter.status \in {"in-progress", "arrived", "triaged"}
  THEN [task EXCEPT !.lastModified = t,
                    !.status = "in-progress",
                    !.businessStatus = "encounter-in-progress"]
  ELSE IF encounter.status = "finished"
  THEN [task EXCEPT !.lastModified = t,
                    !.businessStatus = "loop-closed",
                    !.output = Append(@, Ref("Encounter", encounter.id))]
  ELSE [task EXCEPT !.lastModified = t]


\* A finished encounter completes the Task and adds nothing to its output.
TaskAfterEncounterWithoutOutput(task, encounter, t) ==
  IF task.status = "completed" \/ task.status = "failed" THEN task
  ELSE IF encounter.status = "planned"
  THEN [task EXCEPT !.lastModified = t,
                    !.status = "in-progress",
                    !.businessStatus = "appointment-scheduled"]
  ELSE IF encounter.status \in {"in-progress", "arrived", "triaged"}
  THEN [task EXCEPT !.lastModified = t,
                    !.status = "in-progress",
                    !.businessStatus = "encounter-in-progress"]
  ELSE IF encounter.status = "finished"
  THEN [task EXCEPT !.lastModified = t,
                    !.status = "completed",
                    !.businessStatus = "loop-closed"]
  ELSE [task EXCEPT !.lastModified = t]

TaskAfterEncounter(task, encounter, t) ==
  IF task.status = "completed" \/ task.status = "failed" THEN task
  ELSE IF encounter.status = "planned"
  THEN [task EXCEPT !.lastModified = t,
                    !.status = "in-progress",
                    !.businessStatus = "appointment-scheduled"]
  ELSE IF encounter.status \in {"in-progress", "arrived", "triaged"}
  THEN [task EXCEPT !.lastModified = t,
                    !.status = "in-progress",
                    !.businessStatus = "encounter-in-progress"]
  ELSE IF encounter.status = "finished"
  THEN [task EXCEPT !.lastModified = t,
                    !.status = "completed",
                    !.businessStatus = "loop-closed",
                    !.output = Append(@, Ref("Encounter", encounter.id))]
  ELSE [task EXCEPT !.lastModified = t]

\* Mutant of updateTaskForEncounter: every Task of the Map is updated.
updateTaskForEncounterOnAll(ts, taskId, encounter, t) ==
  IF IndexOf(ts, taskId) = 0 THEN ts
  ELSE [i \in 1..Len(ts) |-> TaskAfterEncounter(ts[i], encounter, t)]

\* The tasks Map after updateTaskForEncounter(taskId, encounter, _) at time t.
updateTaskForEncounter(ts, taskId, encounter, t) ==
  IF IndexOf(ts, taskId) = 0 THEN ts
  ELSE [ts EXCEPT ![IndexOf(ts, taskId)] = TaskAfterEncounter(@, encounter, t)]

\* Mutant of IsOverdue: a due date equal to the current time is overdue.
IsOverdueWhenReached(task, t) ==
  /\ task.status \notin {"completed", "failed", "cancelled"}
  /\ task.restriction.period.end # <<>>
  /\ StrLE(task.restriction.period.end, t)

\* Mutant of IsOverdue: failed Tasks are not skipped.
IsOverdueAlsoWhenFailed(task, t) ==
  /\ task.status \notin {"completed", "cancelled"}
  /\ task.restriction.period.end # <<>>
  /\ StrLT(task.restriction.period.end, t)

\* Whether checkOverdueTasks at time t marks this task.
IsOverdue(task, t) ==
  /\ task.status \notin {"completed", "failed", "cancelled"}
  /\ task.restriction.period.end # <<>>
  /\ StrLT(task.restriction.period.end, t)

\* Mutant of TasksAfterOverdueCheck: lastModified is not set.
TasksAfterOverdueCheckKeepingModified(ts, t) ==
  [i \in 1..Len(ts) |->
     IF IsOverdue(ts[i], t)
     THEN [ts[i] EXCEPT !.status = "failed", !.businessStatus = "overdue"]
     ELSE ts[i]]


\* An overdue Task fails and keeps the business status it had.
TasksAfterOverdueCheckKeepingBusinessStatus(ts, t) ==
  [i \in 1..Len(ts) |->
     IF IsOverdue(ts[i], t)
     THEN [ts[i] EXCEPT !.status = "failed", !.lastModified = t]
     ELSE ts[i]]

TasksAfterOverdueCheck(ts, t) ==
  [i \in 1..Len(ts) |->
     IF IsOverdue(ts[i], t)
     THEN [ts[i] EXCEPT !.status = "failed",
                        !.businessStatus = "overdue",
                        !.lastModified = t]
     ELSE ts[i]]

RECURSIVE OverdueIds(_, _)
OverdueIds(ts, t) ==
  IF ts = <<>> THEN <<>>
  ELSE (IF IsOverdue(Head(ts), t) THEN <<Head(ts).id>> ELSE <<>>)
       \o OverdueIds(Tail(ts), t)

checkOverdueTasks ==
  /\ tasks' = TasksAfterOverdueCheck(tasks, toISOString(now))
  /\ ret' = [op |-> "checkOverdueTasks",
             overdueTaskIds |-> OverdueIds(tasks, toISOString(now))]
  /\ UNCHANGED <<serviceRequests, encounters, sharingPreferences, routedEvents,
                 brokerSessions, now, created,
                 sseVars, onboardingVars>>

\* ------------------------------------------------------------------------
\* processEncounter; portal/routing.ts
\* ------------------------------------------------------------------------

AUTO_LINK_THRESHOLD == 70

\* The references the lookups of buildMatchContext are asked about.
RefUniverse ==
  {Ref("Organization", id) :
     id \in {"mercy-hospital", "org-valley-cardiology", "org-urgent-care"}}
  \cup {Ref("Practitioner", id) : id \in {"dr-smith", "dr-johnson", "dr-chen"}}

buildMatchContext ==
  [orgNpiLookup |-> [ref \in RefUniverse |-> orgNpiLookup(ref)],
   practitionerNpiLookup |-> [ref \in RefUniverse |-> practitionerNpiLookup(ref)],
   specialtyLookup |-> [ref \in RefUniverse |-> specialtyLookup(ref)]]

\* Mutant of BestMatch: the top result is taken whatever its score.
BestMatchOfAnyScore(matchResults) ==
  IF Len(matchResults) > 0 THEN <<matchResults[1]>> ELSE <<>>

\* Mutant of BestMatch: the comparison with the threshold is strict.
BestMatchAboveThreshold(matchResults) ==
  IF /\ Len(matchResults) > 0
     /\ matchResults[1].score.num * 100
          > AUTO_LINK_THRESHOLD * matchResults[1].score.den
  THEN <<matchResults[1]>>
  ELSE <<>>

\* matchResults[0] when it reaches the threshold, as <<>> or <<result>>
BestMatch(matchResults) ==
  IF Len(matchResults) > 0 /\ ScoreGE(matchResults[1].score, AUTO_LINK_THRESHOLD)
  THEN <<matchResults[1]>>
  ELSE <<>>

\* The requester of the first open referral, <<>> when there is none.
\* Mutant of PhysicianRef: the requester of the last open referral.
PhysicianRefOfLast(openReferrals) ==
  IF Len(openReferrals) > 0
  THEN openReferrals[Len(openReferrals)].serviceRequest.requester
  ELSE <<>>

PhysicianRef(openReferrals) ==
  IF Len(openReferrals) > 0 THEN openReferrals[1].serviceRequest.requester
  ELSE <<>>

\* Mutant of RoutingDecision: the active flag is not looked at.
RoutingDecisionIgnoringActive(pref, bestMatch) ==
  IF pref = <<>>
  THEN [routed |-> FALSE, reason |-> "No active sharing preference"]
  ELSE IF pref[1].mode = "all-encounters"
  THEN [routed |-> TRUE, reason |-> "Patient selected 'share all encounters'"]
  ELSE IF pref[1].mode = "referrals-only"
  THEN (IF bestMatch # <<>>
        THEN [routed |-> TRUE, reason |-> "Matched referral"]
        ELSE [routed |-> FALSE,
              reason |-> "No referral match found (referrals-only mode)"])
  ELSE [routed |-> FALSE, reason |-> ""]

\* Mutant of RoutingDecision: referrals-only routes without a best match.
RoutingDecisionIgnoringMatch(pref, bestMatch) ==
  IF pref = <<>> \/ ~pref[1].active
  THEN [routed |-> FALSE, reason |-> "No active sharing preference"]
  ELSE IF pref[1].mode = "all-encounters"
  THEN [routed |-> TRUE, reason |-> "Patient selected 'share all encounters'"]
  ELSE IF pref[1].mode = "referrals-only"
  THEN [routed |-> TRUE, reason |-> "Matched referral"]
  ELSE [routed |-> FALSE, reason |-> ""]

\* Step 6: routed and reason from the preference and the best match. The
\* reason of a match also carries the referral id and the score, which the
\* result holds in bestMatch.
RoutingDecision(pref, bestMatch) ==
  IF pref = <<>> \/ ~pref[1].active
  THEN [routed |-> FALSE, reason |-> "No active sharing preference"]
  ELSE IF pref[1].mode = "all-encounters"
  THEN [routed |-> TRUE, reason |-> "Patient selected 'share all encounters'"]
  ELSE IF pref[1].mode = "referrals-only"
  THEN (IF bestMatch # <<>>
        THEN [routed |-> TRUE, reason |-> "Matched referral"]
        ELSE [routed |-> FALSE,
              reason |-> "No referral match found (referrals-only mode)"])
  ELSE [routed |-> FALSE, reason |-> ""]

\* Mutant of UpsertRoutedEvent: the event is always pushed.
UpsertAlwaysPushing(events, event) == Append(events, event)

\* Mutant of UpsertRoutedEvent: findIndex does not compare the encounter id
\* and finds the first event.
UpsertIntoFirstSlot(events, event) ==
  IF Len(events) > 0 THEN [events EXCEPT ![1] = event]
  ELSE Append(events, event)

\* routedEvents after the upsert of step 7
UpsertRoutedEvent(events, event) ==
  IF \E i \in 1..Len(events) : events[i].encounterId = event.encounterId
  THEN [events EXCEPT
          ![CHOOSE i \in 1..Len(events) :
              /\ events[i].encounterId = event.encounterId
              /\ \A k \in 1..(i - 1) : events[k].encounterId # event.encounterId]
            = event]
  ELSE Append(events, event)


\* broadcast; src/shared/sse.ts. A message is the event of one broadcast
\* call: the channel it was sent on, its type, and the encounter's id and
\* subject. A stream records the set of messages enqueued on its
\* controller and whether it is still open: enqueue throws once the stream
\* was cancelled.

\* The channel of the client is not looked at.
DeliversOnEveryChannel(client, channel, patientId) ==
  ~(Truthy(patientId) /\ Truthy(client.patientId)
      /\ client.patientId # patientId)

\* The filter of the loop: the client is on the channel and, when both the
\* call and the client name a patient, they name the same one.
Delivers(client, channel, patientId) ==
  /\ client.channel = channel
  /\ ~(Truthy(patientId) /\ Truthy(client.patientId)
         /\ client.patientId # patientId)

\* The client list and the streams after broadcast(channel, message, patientId):
\* a client that passes the filter gets the message, or is spliced out of
\* the list when the enqueue throws.
broadcast(clients, strs, channel, message, patientId) ==
  [sseClients |->
     SelectSeq(clients,
               LAMBDA c : ~(Delivers(c, channel, patientId) /\ ~strs[c.id].open)),
   streams |->
     [n \in 1..Len(strs) |->
        IF /\ strs[n].open
           /\ \E i \in 1..Len(clients) :
                clients[i].id = n /\ Delivers(clients[i], channel, patientId)
        THEN [strs[n] EXCEPT !.enqueued = @ \cup {message}]
        ELSE strs[n]]]

\* The two broadcasts of a processEncounter call: to the patient channel
\* always, to the physician channel when the encounter was routed.
SseAfterProcessEncounter(encounter, patientId, isUpdate, routed) ==
  LET toPatient ==
        broadcast(sseClients, streams, "patient",
                  [channel |-> "patient",
                   type |-> IF isUpdate THEN "encounter-updated"
                            ELSE "encounter-stored",
                   encounterId |-> encounter.id,
                   subject |-> encounter.subject],
                  patientId)
  IN IF routed
     THEN broadcast(toPatient.sseClients, toPatient.streams, "physician",
                    [channel |-> "physician",
                     type |-> IF isUpdate THEN "encounter-updated"
                              ELSE "encounter-routed",
                     encounterId |-> encounter.id,
                     subject |-> encounter.subject],
                    None)
     ELSE toPatient

\* The RoutedEvent of step 7
RoutedEventOf(encounter, patientId, physicianRef, bestMatch) ==
  [id |-> now,
   encounterId |-> encounter.id,
   patientId |-> patientId,
   physicianRef |-> physicianRef,
   taskId |-> IF bestMatch # <<>> THEN bestMatch[1].taskId ELSE None,
   matchScore |-> IF bestMatch # <<>> THEN <<bestMatch[1].score>> ELSE <<>>,
   routedAt |-> toISOString(now),
   encounter |-> encounter]

\* (Each \E over a one-element set names a local constant of the function.)
\* Mutant of encountersSet: an id already stored keeps its first version.
encountersSetIfAbsent(encs, encounter) ==
  [id \in DOMAIN encs \cup {encounter.id} |->
     IF id \in DOMAIN encs THEN encs[id] ELSE encounter]

\* encounters.set(encounter.id, encounter)
encountersSet(encs, encounter) ==
  [id \in DOMAIN encs \cup {encounter.id} |->
     IF id = encounter.id THEN encounter ELSE encs[id]]

\* Mutant of processEncounter: the Task is updated only when the encounter
\* is routed.
processEncounterUpdatingWhenRouted(encounterIn) ==
  \E rawPatientId \in {StripPrefix(encounterIn.subject, "Patient")} :
  \E patientId \in {resolvePatientId(rawPatientId)} :
  \E encounter \in {IF patientId # rawPatientId
                    THEN [encounterIn EXCEPT !.subject = Ref("Patient", patientId)]
                    ELSE encounterIn} :
  \E openReferrals \in {getOpenReferrals(patientId)} :
  \E matchResults \in {matchEncounterToReferrals(encounter, openReferrals,
                                                 buildMatchContext)} :
  \E bestMatch \in {BestMatch(matchResults)} :
  \E physicianRef \in {PhysicianRef(openReferrals)} :
  \E pref \in {IF physicianRef # <<>>
               THEN getSharingPreference(patientId, physicianRef) ELSE <<>>} :
  \E decision \in {RoutingDecision(pref, bestMatch)} :
     /\ encounters' = encountersSet(encounters, encounter)
     /\ tasks' = IF bestMatch # <<>> /\ decision.routed
                 THEN updateTaskForEncounter(tasks, bestMatch[1].taskId,
                                             encounter, toISOString(now))
                 ELSE tasks
     /\ routedEvents' =
          IF decision.routed /\ physicianRef # <<>>
          THEN UpsertRoutedEvent(routedEvents,
                                 RoutedEventOf(encounter, patientId, physicianRef,
                                               bestMatch))
          ELSE routedEvents
     /\ ret' = [op |-> "processEncounter",
                encounter |-> encounterIn,
                encounterId |-> encounter.id,
                patientId |-> patientId,
                matchResults |-> matchResults,
                bestMatch |-> bestMatch,
                routed |-> decision.routed,
                routedTo |-> IF decision.routed THEN physicianRef ELSE <<>>,
                taskUpdated |-> IF bestMatch # <<>> THEN bestMatch[1].taskId
                                ELSE None,
                reason |-> decision.reason]
     /\ \E sse \in {SseAfterProcessEncounter(
                       encounter, patientId, encounter.id \in DOMAIN encounters,
                       decision.routed /\ physicianRef # <<>>)} :
          /\ sseClients' = sse.sseClients
          /\ streams' = sse.streams
     /\ UNCHANGED <<serviceRequests, sharingPreferences, brokerSessions, now,
                    created, onboardingVars>>

processEncounter(encounterIn) ==
  \E rawPatientId \in {StripPrefix(encounterIn.subject, "Patient")} :
  \E patientId \in {resolvePatientId(rawPatientId)} :
  \E encounter \in {IF patientId # rawPatientId
                    THEN [encounterIn EXCEPT !.subject = Ref("Patient", patientId)]
                    ELSE encounterIn} :
  \E openReferrals \in {getOpenReferrals(patientId)} :
  \E matchResults \in {matchEncounterToReferrals(encounter, openReferrals,
                                                 buildMatchContext)} :
  \E bestMatch \in {BestMatch(matchResults)} :
  \E physicianRef \in {PhysicianRef(openReferrals)} :
  \E pref \in {IF physicianRef # <<>>
               THEN getSharingPreference(patientId, physicianRef) ELSE <<>>} :
  \E decision \in {RoutingDecision(pref, bestMatch)} :
     /\ encounters' = encountersSet(encounters, encounter)
     /\ tasks' = IF bestMatch # <<>>
                 THEN updateTaskForEncounter(tasks, bestMatch[1].taskId,
                                             encounter, toISOString(now))
                 ELSE tasks
     /\ routedEvents' =
          IF decision.routed /\ physicianRef # <<>>
          THEN UpsertRoutedEvent(routedEvents,
                                 RoutedEventOf(encounter, patientId, physicianRef,
                                               bestMatch))
          ELSE routedEvents
     /\ ret' = [op |-> "processEncounter",
                encounter |-> encounterIn,
                encounterId |-> encounter.id,
                patientId |-> patientId,
                matchResults |-> matchResults,
                bestMatch |-> bestMatch,
                routed |-> decision.routed,
                routedTo |-> IF decision.routed THEN physicianRef ELSE <<>>,
                taskUpdated |-> IF bestMatch # <<>> THEN bestMatch[1].taskId
                                ELSE None,
                reason |-> decision.reason]
     /\ \E sse \in {SseAfterProcessEncounter(
                       encounter, patientId, encounter.id \in DOMAIN encounters,
                       decision.routed /\ physicianRef # <<>>)} :
          /\ sseClients' = sse.sseClients
          /\ streams' = sse.streams
     /\ UNCHANGED <<serviceRequests, sharingPreferences, brokerSessions, now,
                    created, onboardingVars>>

\* ------------------------------------------------------------------------
\* Other handlers and the environment
\* ------------------------------------------------------------------------

\* 60 days, in days: the default referral window of the handlers
SIXTY_DAYS == 60

\* POST /api/seed at clock 0: seedDemoReferral's referral and task
SeedReferralInput ==
  [id |-> "referral-001", patientId |-> "patient-001",
   requesterId |-> "dr-smith",
   occurrenceStart |-> DatePart(toISOString(0)),
   occurrenceEnd |-> <<DatePart(toISOString(0))[1] + SIXTY_DAYS>>,
   targetOrgNpi |-> "1538246790", targetOrgName |-> NameMercy,
   targetPractitionerNpi |-> "9876543210", targetSpecialtyCode |-> "207RC0000X"]

SeedTaskInput ==
  [id |-> "task-001", serviceRequestId |-> "referral-001",
   patientId |-> "patient-001", authoredOn |-> toISOString(0),
   dueDate |-> <<DatePart(toISOString(0))[1] + SIXTY_DAYS>>]

\* POST /physician/referral with this JSON body. A field the body leaves
\* out is None (a string), <<>> (a name or a date).
CreateReferral(body) ==
  LET id == "referral-" \o ToString(now)
      taskId == "task-" \o ToString(now)
      today == DatePart(toISOString(now))
      sixtyDays == <<today[1] + SIXTY_DAYS>>
      patientId == IF Truthy(body.patientId) THEN body.patientId ELSE "patient-001"
      requesterId == IF Truthy(body.requesterId) THEN body.requesterId
                     ELSE "dr-smith"
      sr == makeServiceRequest(
              [id |-> id, patientId |-> patientId, requesterId |-> requesterId,
               occurrenceStart |-> IF body.occurrenceStart # <<>>
                                   THEN body.occurrenceStart ELSE today,
               occurrenceEnd |-> IF body.occurrenceEnd # <<>>
                                 THEN body.occurrenceEnd ELSE sixtyDays,
               targetOrgNpi |-> body.targetOrgNpi,
               targetOrgName |-> body.targetOrgName,
               targetPractitionerNpi |-> body.targetPractitionerNpi,
               targetSpecialtyCode |-> body.targetSpecialtyCode])
      task == makeTask(
                [id |-> taskId, serviceRequestId |-> id, patientId |-> patientId,
                 authoredOn |-> toISOString(now),
                 dueDate |-> IF body.occurrenceEnd # <<>>
                             THEN body.occurrenceEnd ELSE sixtyDays])
  IN /\ created < MaxCreated
     /\ created' = created + 1
     /\ serviceRequests' = [k \in DOMAIN serviceRequests \cup {id} |->
                              IF k = id THEN sr ELSE serviceRequests[k]]
     /\ tasks' = MapSet(tasks, task)
     /\ ret' = [op |-> "createReferral", serviceRequest |-> id, task |-> taskId]
     /\ UNCHANGED <<encounters, sharingPreferences, routedEvents, brokerSessions,
                    now,
                 sseVars, onboardingVars>>

\* A direct call of the exported setSharingPreference
SetSharingPreference(pref) ==
  /\ sharingPreferences' = setSharingPreference(pref)
  /\ ret' = [op |-> "setSharingPreference", pref |-> pref]
  /\ UNCHANGED <<tasks, serviceRequests, encounters, routedEvents,
                 brokerSessions, now, created,
                 sseVars, onboardingVars>>

\* A direct call of the exported updateTaskForEncounter
UpdateTaskForEncounter(taskId, encounter) ==
  /\ tasks' = updateTaskForEncounter(tasks, taskId, encounter, toISOString(now))
  /\ ret' = [op |-> "updateTaskForEncounter", taskId |-> taskId,
             encounter |-> encounter]
  /\ UNCHANGED <<serviceRequests, encounters, sharingPreferences, routedEvents,
                 brokerSessions, now, created,
                 sseVars, onboardingVars>>

\* An external writer of the store cancels an open Task (task.status =
\* "cancelled"): no handler of the application produces this status.
CancelTask(i) ==
  /\ tasks[i].status \notin TerminalStatuses
  /\ tasks' = [tasks EXCEPT ![i].status = "cancelled"]
  /\ ret' = [op |-> "cancelTask"]
  /\ UNCHANGED <<serviceRequests, encounters, sharingPreferences, routedEvents,
                 brokerSessions, now, created,
                 sseVars, onboardingVars>>

\* An external writer of the store replaces the restriction of a Task
\* (task.restriction = { period: { end } }, or undefined: <<>>).
SetRestriction(i, end) ==
  /\ tasks' = [tasks EXCEPT ![i].restriction = [period |-> [end |-> end]]]
  /\ ret' = [op |-> "setRestriction"]
  /\ UNCHANGED <<serviceRequests, encounters, sharingPreferences, routedEvents,
                 brokerSessions, now, created,
                 sseVars, onboardingVars>>

\* The patient connects a broker: brokerSessions.set(patientId, session).
\* The Map keeps the position of a key it already holds.
ConnectBroker(patientId, sourceId) ==
  /\ brokerSessions' =
       IF \E i \in 1..Len(brokerSessions) : brokerSessions[i].patientId = patientId
       THEN [i \in 1..Len(brokerSessions) |->
               IF brokerSessions[i].patientId = patientId
               THEN [patientId |-> patientId, sourceId |-> sourceId]
               ELSE brokerSessions[i]]
       ELSE Append(brokerSessions, [patientId |-> patientId, sourceId |-> sourceId])
  /\ ret' = [op |-> "connectBroker"]
  /\ UNCHANGED <<tasks, serviceRequests, encounters, sharingPreferences,
                 routedEvents, now, created,
                 sseVars, onboardingVars>>

\* A direct call of the exported matchEncounterToReferrals; the store is not
\* touched.
MatchEncounterToReferrals(encounter, openReferrals, context) ==
  /\ ret' = [op |-> "matchEncounterToReferrals",
             encounter |-> encounter,
             openReferrals |-> openReferrals,
             context |-> context,
             results |-> matchEncounterToReferrals(encounter, openReferrals,
                                                   context)]
  /\ UNCHANGED <<tasks, serviceRequests, encounters, sharingPreferences,
                 routedEvents, brokerSessions, now, created,
                 sseVars, onboardingVars>>

\* let clientIdCounter = 0, incremented by every createSSEStream
clientIdCounter == Len(streams)

\* At most MaxStreams SSE streams are opened.
MaxStreams == 2

\* createSSEStream(channel, patientId): start() registers the client and
\* enqueues the "connected" event.
CreateSSEStream(channel, patientId) ==
  /\ clientIdCounter < MaxStreams
  /\ sseClients' = Append(sseClients, [id |-> clientIdCounter + 1,
                                       channel |-> channel,
                                       patientId |-> patientId])
  /\ streams' = Append(streams,
                       [open |-> TRUE,
                        enqueued |-> {[channel |-> channel, type |-> "connected",
                                       encounterId |-> None, subject |-> <<>>]}])
  /\ ret' = [op |-> "createSSEStream", id |-> clientIdCounter + 1]
  /\ UNCHANGED <<tasks, serviceRequests, encounters, sharingPreferences,
                 routedEvents, brokerSessions, now, created, onboardingVars>>

\* The client of stream n disconnects: the stream's cancel() runs.
CancelSSEStream(n) ==
  /\ n \in 1..Len(streams)
  /\ streams[n].open
  /\ streams' = [streams EXCEPT ![n].open = FALSE]
  /\ sseClients' = IF \E i \in 1..Len(sseClients) :
                        sseClients[i].id = clientIdCounter
                   THEN SelectSeq(sseClients, LAMBDA c : c.id # clientIdCounter)
                   ELSE sseClients
  /\ ret' = [op |-> "cancel", id |-> n]
  /\ UNCHANGED <<tasks, serviceRequests, encounters, sharingPreferences,
                 routedEvents, brokerSessions, now, created, onboardingVars>>

\* The onboarding wizard; src/portal/handler.ts. An OnboardingState is an
\* object: a handler that is suspended at an await holds the object it read
\* before, and writes to that object when it resumes. null is None. The ids
\* the broker and the EHR hand out are fixed strings.

\* At most MaxRuns times POST /patient/verify-identity is served.
MaxRuns == 2

\* At most MaxInflight handlers wait for the broker at a time.
MaxInflight == 1

\* The check each handler makes before it does anything.
GuardPasses(step, patientId) ==
  /\ patientId \in DOMAIN onboardingStates
  /\ LET state == stateObjects[onboardingStates[patientId]]
     IN CASE step = "register" -> state.identityVerified
          [] step = "authorize" -> Truthy(state.brokerId)
          [] step = "subscribe" -> Truthy(state.accessToken)
          [] step = "complete-onboarding" -> Truthy(state.subscriptionId)

\* Step 1, POST /patient/verify-identity: a fresh state object replaces the
\* patient's entry.
VerifyIdentity(patientId) ==
  /\ Len(stateObjects) < MaxRuns
  /\ stateObjects' = Append(stateObjects,
                            [patientId |-> patientId, step |-> "2",
                             identityVerified |-> TRUE, brokerId |-> None,
                             sourceId |-> None, accessToken |-> None,
                             subscriptionId |-> None, sharingEnabled |-> FALSE,
                             completedAt |-> <<>>])
  /\ onboardingStates' =
       [p \in DOMAIN onboardingStates \cup {patientId} |->
          IF p = patientId THEN Len(stateObjects) + 1 ELSE onboardingStates[p]]
  /\ stepsDone' = {d \in stepsDone : d[1] # patientId}
                    \cup {<<patientId, "verify-identity">>}
  /\ ret' = [op |-> "verify-identity", patientId |-> patientId,
             event |-> "invoked", status |-> 200]
  /\ UNCHANGED <<tasks, serviceRequests, encounters, sharingPreferences,
                 routedEvents, brokerSessions, now, created, sseVars, inflight>>

\* Steps 2 to 4, POST /patient/register, /authorize, /subscribe, up to the
\* first await: the handler answers 400 or calls the broker and is suspended
\* (status 0: no answer yet).
BeginStep(step, patientId) ==
  /\ step \in {"register", "authorize", "subscribe"}
  /\ Cardinality(inflight) < MaxInflight
  /\ IF GuardPasses(step, patientId)
     THEN /\ inflight' = inflight \cup {[handler |-> step, patientId |-> patientId,
                                         object |-> onboardingStates[patientId]]}
          /\ ret' = [op |-> step, patientId |-> patientId,
                     event |-> "invoked", status |-> 0]
     ELSE /\ inflight' = inflight
          /\ ret' = [op |-> step, patientId |-> patientId,
                     event |-> "invoked", status |-> 400]
  /\ UNCHANGED <<tasks, serviceRequests, encounters, sharingPreferences,
                 routedEvents, brokerSessions, now, created, sseVars,
                 onboardingStates, stateObjects, stepsDone>>

\* The broker answered: the suspended handler writes to the object it holds,
\* sets it as the patient's entry and answers 200. /subscribe stores the
\* broker session as well.
EndStep(req) ==
  /\ req \in inflight
  /\ inflight' = inflight \ {req}
  /\ stateObjects' =
       [stateObjects EXCEPT ![req.object] =
          CASE req.handler = "register" ->
                 [@ EXCEPT !.brokerId = "broker-1", !.sourceId = "mercy-1",
                           !.step = "3"]
            [] req.handler = "authorize" ->
                 [@ EXCEPT !.accessToken = "token-1", !.step = "4"]
            [] req.handler = "subscribe" ->
                 [@ EXCEPT !.subscriptionId = "sub-1", !.step = "5"]]
  /\ onboardingStates' =
       [p \in DOMAIN onboardingStates \cup {req.patientId} |->
          IF p = req.patientId THEN req.object ELSE onboardingStates[p]]
  /\ brokerSessions' =
       IF req.handler # "subscribe" THEN brokerSessions
       ELSE LET session == [patientId |-> req.patientId,
                            sourceId |-> stateObjects[req.object].sourceId]
            IN IF \E i \in 1..Len(brokerSessions) :
                    brokerSessions[i].patientId = req.patientId
               THEN [i \in 1..Len(brokerSessions) |->
                       IF brokerSessions[i].patientId = req.patientId
                       THEN session ELSE brokerSessions[i]]
               ELSE Append(brokerSessions, session)
  /\ stepsDone' = stepsDone \cup {<<req.patientId, req.handler>>}
  /\ ret' = [op |-> req.handler, patientId |-> req.patientId,
             event |-> "completed", status |-> 200]
  /\ UNCHANGED <<tasks, serviceRequests, encounters, sharingPreferences,
                 routedEvents, now, created, sseVars>>

\* The call of the broker threw: the handler answers 500 and wrote nothing.
FailStep(req) ==
  /\ req \in inflight
  /\ inflight' = inflight \ {req}
  /\ ret' = [op |-> req.handler, patientId |-> req.patientId,
             event |-> "completed", status |-> 500]
  /\ UNCHANGED <<tasks, serviceRequests, encounters, sharingPreferences,
                 routedEvents, brokerSessions, now, created, sseVars,
                 onboardingStates, stateObjects, stepsDone>>

\* Step 5, POST /patient/complete-onboarding with sharingEnabled in the body
\* and the defaults for the physician and the mode.
CompleteOnboarding(patientId, sharingEnabled) ==
  IF GuardPasses("complete-onboarding", patientId)
  THEN /\ stateObjects' =
            [stateObjects EXCEPT ![onboardingStates[patientId]] =
               [@ EXCEPT !.sharingEnabled = sharingEnabled,
                         !.step = "complete",
                         !.completedAt = toISOString(now)]]
       /\ sharingPreferences' =
            IF sharingEnabled
            THEN setSharingPreference(
                   [patientId |-> patientId,
                    physicianRef |-> Ref("Practitioner", "dr-smith"),
                    mode |-> "referrals-only", active |-> TRUE])
            ELSE sharingPreferences
       /\ stepsDone' = stepsDone \cup {<<patientId, "complete-onboarding">>}
       /\ ret' = [op |-> "complete-onboarding", patientId |-> patientId,
                  event |-> "invoked", status |-> 200]
       /\ UNCHANGED <<tasks, serviceRequests, encounters, routedEvents,
                      brokerSessions, now, created, sseVars, onboardingStates,
                      inflight>>
  ELSE /\ ret' = [op |-> "complete-onboarding", patientId |-> patientId,
                  event |-> "invoked", status |-> 400]
       /\ UNCHANGED <<tasks, serviceRequests, encounters, sharingPreferences,
                      routedEvents, brokerSessions, now, created, sseVars,
                      onboardingVars>>

\* Time passes: by one tick,
Tick ==
  /\ now < MaxNow
  /\ now' = now + 1
  /\ ret' = [op |-> "tick"]
  /\ UNCHANGED <<tasks, serviceRequests, encounters, sharingPreferences,
                 routedEvents, brokerSessions, created,
                 sseVars, onboardingVars>>

\* or to the day after the sixty days of the seeded referral have run out.
FarFuture == (SIXTY_DAYS + 1) * TicksPerDay

Leap ==
  /\ now < FarFuture
  /\ now' = FarFuture
  /\ ret' = [op |-> "tick"]
  /\ UNCHANGED <<tasks, serviceRequests, encounters, sharingPreferences,
                 routedEvents, brokerSessions, created,
                 sseVars, onboardingVars>>

\* The store after POST /api/seed at clock 0.
Init ==
  /\ tasks = <<makeTask(SeedTaskInput)>>
  /\ serviceRequests =
       [k \in {"referral-001"} |-> makeServiceRequest(SeedReferralInput)]
  /\ encounters = <<>>
  /\ sharingPreferences = <<>>
  /\ routedEvents = <<>>
  /\ brokerSessions = <<>>
  /\ now = 0
  /\ created = 0
  /\ sseClients = <<>>
  /\ streams = <<>>
  /\ onboardingStates = <<>>
  /\ stateObjects = <<>>
  /\ inflight = {}
  /\ stepsDone = {}
  /\ ret = [op |-> "seed"]

\* ------------------------------------------------------------------------
\* Inputs
\* ------------------------------------------------------------------------

EncounterIds == {"enc-1", "enc-2"}

\* A cardiology visit at Mercy General with Dr. Johnson: every signal of the
\* seeded referral matches (score 1.00).
MercyCardiology ==
  [serviceProvider |-> <<[reference |-> Ref("Organization", "mercy-hospital"),
                          display |-> NameMercyPC]>>,
   participant |-> <<[reference |-> Ref("Practitioner", "dr-johnson"),
                      identifier |-> <<>>]>>,
   period |-> [start |-> toISOString(1)]]

\* A psychiatrist visit at Mercy General: organization and date match, the
\* practitioner (embedded NPI 5555555555) does not (score 0.65).
MercyPsychiatry ==
  [serviceProvider |-> <<[reference |-> Ref("Organization", "mercy-hospital"),
                          display |-> NameMercy]>>,
   participant |-> <<[reference |-> Ref("Practitioner", "dr-chen"),
                      identifier |-> <<[system |-> NPI_SYSTEM,
                                        value |-> "5555555555"]>>]>>,
   period |-> [start |-> toISOString(1)]]

\* Dr. Johnson seen at Mercy General, no organization display name and no
\* period start: organization NPI, practitioner NPI and specialty match
\* (score 0.70, the threshold itself).
MercyUndated ==
  [serviceProvider |-> <<[reference |-> Ref("Organization", "mercy-hospital"),
                          display |-> <<>>]>>,
   participant |-> <<[reference |-> Ref("Practitioner", "dr-johnson"),
                      identifier |-> <<>>]>>,
   period |-> [start |-> <<>>]]

\* An encounter that names no service provider.
NoProvider ==
  [serviceProvider |-> <<>>,
   participant |-> <<>>,
   period |-> [start |-> toISOString(1)]]

MkEncounter(id, status, patientId, shape) ==
  [id |-> id, status |-> status, subject |-> Ref("Patient", patientId),
   serviceProvider |-> shape.serviceProvider,
   participant |-> shape.participant,
   period |-> shape.period]

\* A cardiology visit at Valley Cardiology with Dr. Johnson.
ValleyCardiology ==
  [serviceProvider |-> <<[reference |-> Ref("Organization", "org-valley-cardiology"),
                          display |-> NameValley]>>,
   participant |-> <<[reference |-> Ref("Practitioner", "dr-johnson"),
                      identifier |-> <<>>]>>,
   period |-> [start |-> toISOString(1)]]

Modes == {"referrals-only", "all-encounters"}

PreferenceInputs ==
  {[patientId |-> "patient-001", physicianRef |-> Ref("Practitioner", d),
    mode |-> m, active |-> a] :
     d \in {"dr-smith"}, m \in Modes, a \in BOOLEAN}

\* ------------------------------------------------------------------------
\* Specifications
\* ------------------------------------------------------------------------

\* Spec: encounters of patient-001 arrive in any order and the patient sets,
\* changes and deactivates the sharing preference in between. The clock
\* stands still.
RoutingEncounters ==
  {MkEncounter(id, status, "patient-001", shape) :
     id \in EncounterIds, status \in {"planned", "finished"},
     shape \in {MercyCardiology, MercyPsychiatry, MercyUndated}}

ProcessRoutingEncounter == \E e \in RoutingEncounters : processEncounter(e)

SetPreference == \E pref \in PreferenceInputs : SetSharingPreference(pref)

Next == ProcessRoutingEncounter \/ SetPreference

Spec == Init /\ [][Next]_vars

\* SpecLifecycle: matching encounters of every status arrive while time
\* passes, the overdue check runs and Tasks are cancelled from outside.
LifecycleEncounters ==
  {MkEncounter(id, status, "patient-001", MercyCardiology) :
     id \in EncounterIds, status \in EncounterStatuses}

ProcessLifecycleEncounter == \E e \in LifecycleEncounters : processEncounter(e)

CancelSomeTask == \E i \in 1..Len(tasks) : CancelTask(i)

NextLifecycle ==
  ProcessLifecycleEncounter \/ checkOverdueTasks \/ CancelSomeTask \/ Tick \/ Leap

SpecLifecycle == Init /\ [][NextLifecycle]_vars

\* SpecAdvance: updateTaskForEncounter is called directly, on Tasks in every
\* status, with encounters of every status.
AdvanceTask ==
  \E e \in LifecycleEncounters, i \in 1..Len(tasks) :
    UpdateTaskForEncounter(tasks[i].id, e)

NextAdvance == AdvanceTask \/ checkOverdueTasks \/ CancelSomeTask \/ Tick \/ Leap

SpecAdvance == Init /\ [][NextAdvance]_vars

\* SpecReferrals: a second physician refers patient-001 to Valley
\* Cardiology; encounters at either place arrive while the patient sets and
\* changes the preference with each physician. The clock stands still.
ValleyReferralBody ==
  [patientId |-> "patient-001", requesterId |-> "pract-pcp",
   occurrenceStart |-> <<>>, occurrenceEnd |-> <<>>,
   targetOrgNpi |-> "1122334455", targetOrgName |-> NameValley,
   targetPractitionerNpi |-> "9876543210",
   targetSpecialtyCode |-> "207RC0000X"]

CreateValleyReferral == CreateReferral(ValleyReferralBody)

ReferralEncounters ==
  {MkEncounter(id, status, "patient-001", shape) :
     id \in {"enc-1"}, status \in {"planned", "finished"},
     shape \in {MercyCardiology, ValleyCardiology}}

ProcessReferralEncounter == \E e \in ReferralEncounters : processEncounter(e)

ReferralPreferenceInputs ==
  {[patientId |-> "patient-001", physicianRef |-> Ref("Practitioner", d),
    mode |-> m, active |-> a] :
     d \in {"dr-smith", "pract-pcp"}, m \in Modes, a \in BOOLEAN}

SetReferralPreference ==
  \E pref \in ReferralPreferenceInputs : SetSharingPreference(pref)

NextReferrals ==
  \/ ProcessReferralEncounter
  \/ SetReferralPreference
  \/ CreateValleyReferral

SpecReferrals == Init /\ [][NextReferrals]_vars

\* SpecResolve: patients connect brokers, which map an id of the EHR to the
\* patient; encounters arrive under ids of the EHR and under the canonical
\* id, while patient-001 sets the preference with dr-smith.
PatientIds == {"patient-001", "patient-002"}

EhrPatientIds == {"mercy-1", "mercy-2"}

ConnectSomeBroker ==
  \E patientId \in PatientIds, sourceId \in EhrPatientIds :
    ConnectBroker(patientId, sourceId)

ResolveEncounters ==
  {MkEncounter("enc-1", status, subject, MercyCardiology) :
     status \in {"planned", "finished"},
     subject \in EhrPatientIds \cup {"patient-001"}}

ProcessResolveEncounter == \E e \in ResolveEncounters : processEncounter(e)

NextResolve ==
  \/ ProcessResolveEncounter
  \/ ConnectSomeBroker
  \/ SetPreference

SpecResolve == Init /\ [][NextResolve]_vars

\* SpecPreferences: two patients set, change and deactivate the preference
\* with each of two physicians, in any order.
PairPreferenceInputs ==
  {[patientId |-> p, physicianRef |-> Ref("Practitioner", d),
    mode |-> m, active |-> a] :
     p \in PatientIds, d \in {"dr-smith", "pract-pcp"}, m \in Modes,
     a \in BOOLEAN}

SetPairPreference ==
  \E pref \in PairPreferenceInputs : SetSharingPreference(pref)

NextPreferences == SetPairPreference

SpecPreferences == Init /\ [][NextPreferences]_vars

\* SpecOverdue: the overdue check runs on Tasks of every status, with no
\* due date, with a due date of the day and with one of the very tick,
\* while referrals are created and time passes.
DueDateInputs ==
  {<<>>, DatePart(toISOString(0)), toISOString(1), DatePart(toISOString(MaxNow))}

ReferralBodies ==
  {[patientId |-> None, requesterId |-> None,
    occurrenceStart |-> <<>>, occurrenceEnd |-> end,
    targetOrgNpi |-> "1538246790", targetOrgName |-> NameMercy,
    targetPractitionerNpi |-> "9876543210",
    targetSpecialtyCode |-> "207RC0000X"] : end \in {toISOString(1)}}

\* One referral is added to the seeded one.
CreateSomeReferral ==
  /\ Len(tasks) < 2
  /\ \E body \in ReferralBodies : CreateReferral(body)

SetSomeRestriction ==
  \E i \in 1..Len(tasks), end \in DueDateInputs : SetRestriction(i, end)

FinishSomeTask ==
  \E i \in 1..Len(tasks) :
    UpdateTaskForEncounter(tasks[i].id,
                           MkEncounter("enc-1", "finished", "patient-001",
                                       MercyCardiology))

NextOverdue ==
  \/ checkOverdueTasks
  \/ SetSomeRestriction
  \/ CreateSomeReferral
  \/ CancelSomeTask
  \/ FinishSomeTask
  \/ Tick

SpecOverdue == Init /\ [][NextOverdue]_vars

\* SpecMatch: matchEncounterToReferrals is called with encounters of every
\* shape, lists of up to two referrals with every combination of targets,
\* and with or without the lookups of the store.
UrgentCareTypo ==
  [serviceProvider |-> <<[reference |-> Ref("Organization", "org-urgent-care"),
                          display |-> NameMercyTypo]>>,
   participant |-> <<>>,
   period |-> [start |-> toISOString(1)]]

\* An encounter from the upstream EHR: its first participant refers to
\* Dr. Smith of the store (NPI 1234567890) and embeds the NPI 9876543210.
MercyEhrSmith ==
  [serviceProvider |-> <<[reference |-> Ref("Organization", "mercy-hospital"),
                          display |-> NameMercy]>>,
   participant |-> <<[reference |-> Ref("Practitioner", "dr-smith"),
                      identifier |-> <<[system |-> NPI_SYSTEM,
                                        value |-> "9876543210"]>>]>>,
   period |-> [start |-> toISOString(1)]]

MatchEncounters ==
  {MkEncounter("enc-1", "planned", "patient-001", shape) :
     shape \in {MercyCardiology, MercyPsychiatry, MercyUndated,
                ValleyCardiology, UrgentCareTypo, NoProvider, MercyEhrSmith}}

\* An open referral as getOpenReferrals returns it, made by the factories.
MkReferral(name, start, end, orgNpi, orgName, practitionerNpi, specialtyCode) ==
  [serviceRequest |->
     makeServiceRequest(
       [id |-> "sr-" \o name, patientId |-> "patient-001",
        requesterId |-> "dr-smith",
        occurrenceStart |-> start, occurrenceEnd |-> end,
        targetOrgNpi |-> orgNpi, targetOrgName |-> orgName,
        targetPractitionerNpi |-> practitionerNpi,
        targetSpecialtyCode |-> specialtyCode]),
   task |->
     makeTask([id |-> "task-" \o name, serviceRequestId |-> "sr-" \o name,
               patientId |-> "patient-001", authoredOn |-> toISOString(0),
               dueDate |-> end])]

MatchReferrals ==
  {MkReferral("mercy", <<0>>, <<SIXTY_DAYS>>,
              "1538246790", NameMercy, "9876543210", "207RC0000X"),
   MkReferral("valley", <<0>>, <<SIXTY_DAYS>>,
              "1122334455", NameValley, "9876543210", "207RC0000X"),
   MkReferral("name-specialty", <<0>>, <<SIXTY_DAYS>>,
              None, NameMercy, None, "207RC0000X"),
   MkReferral("name-only", <<1>>, <<SIXTY_DAYS>>,
              None, NameValley, None, None),
   MkReferral("no-target", <<0>>, <<SIXTY_DAYS>>,
              None, <<>>, None, "207RC0000X"),
   MkReferral("practitioner-past", <<0>>, <<0>>,
              None, <<>>, "9876543210", None)}

MatchReferralLists ==
  {<<>>} \cup {<<r>> : r \in MatchReferrals}
         \cup {<<r, q>> : r \in MatchReferrals, q \in MatchReferrals}

\* context = {}: no lookup is supplied.
EmptyContext ==
  [orgNpiLookup |-> <<>>, practitionerNpiLookup |-> <<>>,
   specialtyLookup |-> <<>>]

MatchContexts == {buildMatchContext, EmptyContext}

MatchSomeEncounter ==
  \E encounter \in MatchEncounters, openReferrals \in MatchReferralLists,
     context \in MatchContexts :
    MatchEncounterToReferrals(encounter, openReferrals, context)

NextMatch == MatchSomeEncounter

SpecMatch == Init /\ [][NextMatch]_vars

\* SpecNoProvider: encounters that name no service provider are matched
\* directly, against every referral list, and arrive at processEncounter.
\* A visit with Dr. Johnson that names no service provider.
NoProviderCardiology ==
  [serviceProvider |-> <<>>,
   participant |-> <<[reference |-> Ref("Practitioner", "dr-johnson"),
                      identifier |-> <<>>]>>,
   period |-> [start |-> toISOString(1)]]

NoProviderEncounters ==
  {MkEncounter("enc-1", status, "patient-001", shape) :
     status \in {"planned", "finished"},
     shape \in {NoProvider, NoProviderCardiology}}

MatchNoProviderEncounter ==
  \E encounter \in {e \in NoProviderEncounters : e.status = "finished"},
     openReferrals \in MatchReferralLists, context \in MatchContexts :
    MatchEncounterToReferrals(encounter, openReferrals, context)

ProcessNoProviderEncounter ==
  \E e \in NoProviderEncounters : processEncounter(e)

NextNoProvider ==
  \/ MatchNoProviderEncounter
  \/ ProcessNoProviderEncounter

SpecNoProvider == Init /\ [][NextNoProvider]_vars

\* SpecCreate: physicians create referrals, several within one tick of the
\* clock or ticks apart, while matching encounters advance the Tasks.
CreateBodies == ReferralBodies \cup {ValleyReferralBody}

CreateAnyReferral == \E body \in CreateBodies : CreateReferral(body)

CreateEncounters ==
  {MkEncounter("enc-1", "planned", "patient-001", shape) :
     shape \in {MercyCardiology, ValleyCardiology}}

ProcessCreateEncounter == \E e \in CreateEncounters : processEncounter(e)

NextCreate ==
  \/ CreateAnyReferral
  \/ ProcessCreateEncounter
  \/ Tick

SpecCreate == Init /\ [][NextCreate]_vars


\* SpecFuzzy: the string utilities of the matcher applied to every pair of
\* short strings over an alphabet with both cases of a letter, a blank and
\* the letters of the strip term "pa".
MaxLen == 3

\* The strings of at most n characters over P, p, a and the blank.
RECURSIVE StringsUpTo(_)
StringsUpTo(n) ==
  IF n = 0 THEN {<<>>}
  ELSE LET shorter == StringsUpTo(n - 1)
       IN shorter \cup {Append(s, c) : s \in {t \in shorter : Len(t) = n - 1},
                                        c \in {"P", "p", "a", " "}}

InitFuzzy ==
  /\ tasks = <<makeTask(SeedTaskInput)>>
  /\ serviceRequests =
       [k \in {"referral-001"} |-> makeServiceRequest(SeedReferralInput)]
  /\ encounters = <<>>
  /\ sharingPreferences = <<>>
  /\ routedEvents = <<>>
  /\ brokerSessions = <<>>
  /\ now = 0
  /\ created = 0
  /\ sseClients = <<>>
  /\ streams = <<>>
  /\ onboardingStates = <<>>
  /\ stateObjects = <<>>
  /\ inflight = {}
  /\ stepsDone = {}
  /\ \E a \in StringsUpTo(MaxLen), b \in StringsUpTo(MaxLen) :
       ret = [op |-> "input", a |-> a, b |-> b]

LevenshteinDistance ==
  /\ ret.op = "input"
  /\ ret' = [op |-> "levenshteinDistance", a |-> ret.a, b |-> ret.b,
             result |-> levenshteinDistance(ret.a, ret.b),
             swapped |-> levenshteinDistance(ret.b, ret.a)]
  /\ UNCHANGED <<tasks, serviceRequests, encounters, sharingPreferences,
                 routedEvents, brokerSessions, now, created,
                 sseVars, onboardingVars>>

FuzzyNameMatch ==
  /\ ret.op = "input"
  /\ ret' = [op |-> "fuzzyNameMatch", a |-> ret.a, b |-> ret.b,
             result |-> fuzzyNameMatch(ret.a, ret.b)]
  /\ UNCHANGED <<tasks, serviceRequests, encounters, sharingPreferences,
                 routedEvents, brokerSessions, now, created,
                 sseVars, onboardingVars>>

NextFuzzy ==
  \/ LevenshteinDistance
  \/ FuzzyNameMatch

SpecFuzzy == InitFuzzy /\ [][NextFuzzy]_vars


\* SpecPatients: dr-smith refers a second patient, patient-002, to Mercy
\* General as well; encounters of either patient arrive while each patient
\* sets, changes and deactivates the preference with dr-smith.
CreatePatientTwoReferral ==
  /\ Len(tasks) < 2
  /\ CreateReferral([patientId |-> "patient-002", requesterId |-> "dr-smith",
                     occurrenceStart |-> <<>>, occurrenceEnd |-> <<>>,
                     targetOrgNpi |-> "1538246790", targetOrgName |-> NameMercy,
                     targetPractitionerNpi |-> "9876543210",
                     targetSpecialtyCode |-> "207RC0000X"])

ProcessPatientEncounter ==
  \E e \in {MkEncounter(id, status, subject, MercyCardiology) :
              id \in {"enc-1"}, status \in {"planned", "finished"},
              subject \in PatientIds} :
    processEncounter(e)

SetPatientPreference ==
  \E p \in PatientIds, m \in Modes, a \in BOOLEAN :
    SetSharingPreference([patientId |-> p,
                          physicianRef |-> Ref("Practitioner", "dr-smith"),
                          mode |-> m, active |-> a])

NextPatients ==
  \/ CreatePatientTwoReferral
  \/ ProcessPatientEncounter
  \/ SetPatientPreference

SpecPatients == Init /\ [][NextPatients]_vars


\* SpecSse: browsers open and close event streams on either channel, a
\* patient stream with or without a patient id, while encounters of two
\* patients arrive.
NextSse ==
  \/ \E patientId \in PatientIds \cup {None} :
       CreateSSEStream("patient", patientId)
  \/ CreateSSEStream("physician", None)
  \/ \E n \in 1..Len(streams) : CancelSSEStream(n)
  \/ \E e \in {MkEncounter("enc-1", "planned", subject, MercyCardiology) :
                 subject \in PatientIds} :
       processEncounter(e)

SpecSse == Init /\ [][NextSse]_vars


\* SpecOnboarding: patient-001 goes through the wizard, in any order of the
\* requests, which may overlap: a request may arrive while the handler of
\* another waits for the broker. The patient enables sharing in the last step.
NextOnboarding ==
  \/ VerifyIdentity("patient-001")
  \/ \E step \in {"register", "authorize", "subscribe"} :
       BeginStep(step, "patient-001")
  \/ \E req \in inflight : EndStep(req)
  \/ \E req \in inflight : FailStep(req)
  \/ CompleteOnboarding("patient-001", TRUE)

SpecOnboarding == Init /\ [][NextOnboarding]_vars

\* ------------------------------------------------------------------------
\* Properties
\* ------------------------------------------------------------------------

\* events.some(e => e.encounterId === encounterId)
HasEvent(events, encounterId) ==
  \E i \in 1..Len(events) : events[i].encounterId = encounterId

\* The stored preferences of the patient with the requesters of the
\* patient's referrals, open or closed.
StoredPreferences(patientId) ==
  {sharingPreferences[key] :
     key \in {PrefKey(patientId, serviceRequests[k].requester) :
                k \in {r \in DOMAIN serviceRequests :
                         serviceRequests[r].subject = Ref("Patient", patientId)}}
             \cap DOMAIN sharingPreferences}

\* C1: once a Task is completed, failed or cancelled, no call of
\* processEncounter or checkOverdueTasks (and no other step of the
\* lifecycle) changes its status, business status or output list.
C1_TerminalTaskNeverChanges ==
  [][\A i \in 1..Len(tasks) :
       tasks[i].status \in TerminalStatuses =>
         /\ tasks'[i].status = tasks[i].status
         /\ tasks'[i].businessStatus = tasks[i].businessStatus
         /\ tasks'[i].output = tasks[i].output]_vars

\* An encounter that would match was processed while the Task was cancelled.
C1_Witness ==
  /\ ret.op = "processEncounter"
  /\ ret.matchResults = <<>>
  /\ \E i \in 1..Len(tasks) :
       tasks[i].status = "cancelled" /\ tasks[i].for = Ref("Patient", ret.patientId)

\* C2 as stated: after a processEncounter call for an encounter id, a
\* Routed Event for that id is present exactly when the call returned
\* routed = true.
C2_EventIffLastCallRouted ==
  ret.op = "processEncounter" =>
    (HasEvent(routedEvents, ret.encounterId) <=> ret.routed)

\* C2 amended: a processEncounter call leaves a Routed Event for an
\* encounter id present exactly when one was present before the call or the
\* call was for that id and returned routed = true; no other step changes
\* the list. A later evaluation that does not route leaves the earlier
\* Routed Event in place.
C2_EventIffSomeCallRouted ==
  [][IF ret'.op = "processEncounter"
     THEN \A e \in EncounterIds :
            HasEvent(routedEvents', e) <=>
              \/ HasEvent(routedEvents, e)
              \/ (e = ret'.encounterId /\ ret'.routed)
     ELSE routedEvents' = routedEvents]_vars

\* The last evaluation of an encounter did not route it and its Routed Event
\* of an earlier evaluation is still in the list.
C2_Witness ==
  /\ ret.op = "processEncounter"
  /\ ~ret.routed
  /\ HasEvent(routedEvents, ret.encounterId)

\* C3: a processEncounter call made while the patient has no sharing
\* preference with the referring provider, or only an inactive one, returns
\* routed = false and leaves the routed-events list as it was, whatever the
\* match.
C3_NoActivePreferenceNotRouted ==
  [][(/\ ret'.op = "processEncounter"
      /\ \A pref \in StoredPreferences(ret'.patientId) : ~pref.active)
     => ~ret'.routed /\ routedEvents' = routedEvents]_vars

\* A matching encounter was processed under an inactive all-encounters
\* preference.
C3_Witness ==
  /\ ret.op = "processEncounter"
  /\ ret.bestMatch # <<>>
  /\ ~ret.routed
  /\ \E pref \in StoredPreferences(ret.patientId) :
       ~pref.active /\ pref.mode = "all-encounters"

\* C4: a processEncounter call made while the patient has an active
\* all-encounters preference with the referring provider returns
\* routed = true, with or without a match, also after the referral was
\* completed.
C4_AllEncountersAlwaysRouted ==
  (/\ ret.op = "processEncounter"
   /\ \E pref \in StoredPreferences(ret.patientId) :
        pref.active /\ pref.mode = "all-encounters")
  => ret.routed

\* The preference processEncounter looks up: that of the patient with the
\* requester of the first open referral, <<>> when there is none.
LookedUpPreference(patientId) ==
  IF PhysicianRef(getOpenReferrals(patientId)) = <<>> THEN <<>>
  ELSE getSharingPreference(patientId, PhysicianRef(getOpenReferrals(patientId)))

PreferenceState(pref) ==
  IF pref = <<>> THEN "absent"
  ELSE IF ~pref[1].active THEN "inactive"
  ELSE pref[1].mode

\* The consent decision table
DecisionTable(preferenceState, matchPresent) ==
  \/ preferenceState = "all-encounters"
  \/ preferenceState = "referrals-only" /\ matchPresent

\* C5: the routed flag of every processEncounter call is the entry of the
\* consent decision table for the state of the preference the call looks up
\* (absent, inactive, active referrals-only, active all-encounters) and the
\* presence of a best match.
C5_RoutedIsDecisionTable ==
  [][ret'.op = "processEncounter" =>
       ret'.routed =
         DecisionTable(PreferenceState(LookedUpPreference(ret'.patientId)),
                       ret'.bestMatch # <<>>)]_vars

\* A matched encounter was routed under an active referrals-only preference.
C5_Witness ==
  /\ ret.op = "processEncounter"
  /\ ret.bestMatch # <<>>
  /\ ret.routed
  /\ \E pref \in StoredPreferences(ret.patientId) :
       pref.active /\ pref.mode = "referrals-only"

\* C6: the routed-events list never holds two Routed Events of one
\* encounter id; a call that routes an encounter id that has one puts the
\* new event, with the encounter as stored by the call, in its place and
\* leaves the length and the other events alone.
C6_OneEventPerEncounter ==
  /\ [](\A i, j \in 1..Len(routedEvents) :
          routedEvents[i].encounterId = routedEvents[j].encounterId => i = j)
  /\ [][(/\ ret'.op = "processEncounter"
         /\ ret'.routed
         /\ HasEvent(routedEvents, ret'.encounterId))
        => /\ Len(routedEvents') = Len(routedEvents)
           /\ \A i \in 1..Len(routedEvents) :
                IF routedEvents[i].encounterId = ret'.encounterId
                THEN routedEvents'[i].encounter = encounters'[ret'.encounterId]
                ELSE routedEvents'[i] = routedEvents[i]]_vars

\* enc-1 was routed, then enc-2, then enc-1 again: its event is still first.
C6_Witness ==
  /\ ret.op = "processEncounter"
  /\ ret.routed
  /\ Len(routedEvents) = 2
  /\ routedEvents[1].encounterId = ret.encounterId
  /\ routedEvents[1].encounter.status = "finished"

\* The stage of a Task, by its business status
Stage(task) ==
  CASE task.businessStatus = "awaiting-scheduling" -> 1
    [] task.businessStatus = "appointment-scheduled" -> 2
    [] task.businessStatus = "encounter-in-progress" -> 3
    [] task.businessStatus = "loop-closed" -> 4
    [] task.businessStatus = "overdue" -> 4

\* C7: no processEncounter call returns a Task to an earlier stage of
\* awaiting-scheduling, appointment-scheduled, encounter-in-progress,
\* loop-closed (or overdue).
C7_TaskOnlyMovesForward ==
  [][ret'.op = "processEncounter" =>
       \A i \in 1..Len(tasks) : Stage(tasks'[i]) >= Stage(tasks[i])]_vars

\* C8: updateTaskForEncounter on a Task that is not completed, failed or
\* cancelled sets in-progress/appointment-scheduled for a planned encounter,
\* in-progress/encounter-in-progress for an in-progress, arrived or triaged
\* one, and completed/loop-closed with one more output, the reference to the
\* encounter, for a finished one.
C8_AdvanceByEncounterStatus ==
  [][ret'.op = "updateTaskForEncounter" =>
       \A i \in 1..Len(tasks) :
         (tasks[i].id = ret'.taskId /\ tasks[i].status \notin TerminalStatuses)
         => /\ ret'.encounter.status = "planned" =>
                 /\ tasks'[i].status = "in-progress"
                 /\ tasks'[i].businessStatus = "appointment-scheduled"
            /\ ret'.encounter.status \in {"in-progress", "arrived", "triaged"} =>
                 /\ tasks'[i].status = "in-progress"
                 /\ tasks'[i].businessStatus = "encounter-in-progress"
            /\ ret'.encounter.status = "finished" =>
                 /\ tasks'[i].status = "completed"
                 /\ tasks'[i].businessStatus = "loop-closed"
                 /\ tasks'[i].output =
                      Append(tasks[i].output,
                             Ref("Encounter", ret'.encounter.id))]_vars

\* An arrived encounter has just moved a Task to encounter-in-progress.
C8_Witness ==
  /\ ret.op = "updateTaskForEncounter"
  /\ ret.encounter.status = "arrived"
  /\ \E i \in 1..Len(tasks) :
       /\ tasks[i].id = ret.taskId
       /\ tasks[i].businessStatus = "encounter-in-progress"
       /\ tasks[i].lastModified = toISOString(now)

\* C9: the best match of a processEncounter call is the first, top-scoring
\* match result exactly when that result scores at least 0.70; when it
\* scores less (or there is none) the call returns no best match, changes no
\* Task and, under an active referrals-only preference, does not route,
\* while the results stay in matchResults.
C9_BestMatchIffThreshold ==
  [][ret'.op = "processEncounter" =>
       LET results == ret'.matchResults
           reached == /\ Len(results) > 0
                      /\ results[1].score.num * 100 >= 70 * results[1].score.den
       IN /\ \A j \in 1..Len(results) : RatGE(results[1].score, results[j].score)
          /\ ret'.bestMatch = (IF reached THEN <<results[1]>> ELSE <<>>)
          /\ ~reached =>
               /\ tasks' = tasks
               /\ (\E pref \in StoredPreferences(ret'.patientId) :
                     pref.active /\ pref.mode = "referrals-only")
                  => ~ret'.routed]_vars

\* A result below the threshold was returned, without a best match and
\* without routing, under an active referrals-only preference.
C9_Witness ==
  /\ ret.op = "processEncounter"
  /\ ret.matchResults # <<>>
  /\ ret.bestMatch = <<>>
  /\ ~ret.routed
  /\ \E pref \in StoredPreferences(ret.patientId) :
       pref.active /\ pref.mode = "referrals-only"

\* C10: a direct call of updateTaskForEncounter on a completed or failed
\* Task returns and leaves its status, business status, output list and
\* lastModified as they were, for every encounter status.
C10_TerminalTaskUntouched ==
  [][ret'.op = "updateTaskForEncounter" =>
       \A i \in 1..Len(tasks) :
         (tasks[i].id = ret'.taskId /\ tasks[i].status \in {"completed", "failed"})
         => /\ tasks'[i].status = tasks[i].status
            /\ tasks'[i].businessStatus = tasks[i].businessStatus
            /\ tasks'[i].output = tasks[i].output
            /\ tasks'[i].lastModified = tasks[i].lastModified]_vars

\* The call was made with a finished encounter on a Task the overdue check
\* had failed.
C10_Witness ==
  /\ ret.op = "updateTaskForEncounter"
  /\ ret.encounter.status = "finished"
  /\ \E i \in 1..Len(tasks) :
       /\ tasks[i].id = ret.taskId
       /\ tasks[i].status = "failed"
       /\ tasks[i].output = <<>>

\* C11: updateTaskForEncounter called on a cancelled Task leaves its status,
\* business status and output list as they were, for every encounter
\* status.
C11_CancelledTaskUntouched ==
  [][ret'.op = "updateTaskForEncounter" =>
       \A i \in 1..Len(tasks) :
         (tasks[i].id = ret'.taskId /\ tasks[i].status = "cancelled")
         => /\ tasks'[i].status = tasks[i].status
            /\ tasks'[i].businessStatus = tasks[i].businessStatus
            /\ tasks'[i].output = tasks[i].output]_vars

\* C12: updateTaskForEncounter with a cancelled or onleave encounter on a
\* Task that is not completed, failed or cancelled changes none of status,
\* business status, output list and lastModified.
C12_NoBranchNoChange ==
  [][(/\ ret'.op = "updateTaskForEncounter"
      /\ ret'.encounter.status \in {"cancelled", "onleave"})
     => \A i \in 1..Len(tasks) :
          (tasks[i].id = ret'.taskId /\ tasks[i].status \notin TerminalStatuses)
          => /\ tasks'[i].status = tasks[i].status
             /\ tasks'[i].businessStatus = tasks[i].businessStatus
             /\ tasks'[i].output = tasks[i].output
             /\ tasks'[i].lastModified = tasks[i].lastModified]_vars

\* Whether the overdue check, run at the current time, has to mark this Task:
\* its status is none of completed, failed, cancelled and its restriction end
\* is set and strictly before the current time (compared as ISO strings).
DueAndOpen(task) ==
  /\ task.status \notin {"completed", "failed", "cancelled"}
  /\ task.restriction.period.end # <<>>
  /\ StrLT(task.restriction.period.end, toISOString(now))

\* C13: checkOverdueTasks sets every Task that is not completed, failed or
\* cancelled and whose restriction end is strictly before the current time to
\* status failed, business status overdue and lastModified the current time,
\* and returns exactly the ids of the Tasks it transitioned in that call.
C13_OverdueTasksFailAndAreReturned ==
  [][ret'.op = "checkOverdueTasks" =>
       /\ Len(tasks') = Len(tasks)
       /\ \A i \in 1..Len(tasks) :
            DueAndOpen(tasks[i]) =>
              /\ tasks'[i].id = tasks[i].id
              /\ tasks'[i].status = "failed"
              /\ tasks'[i].businessStatus = "overdue"
              /\ tasks'[i].lastModified = toISOString(now)
       /\ {ret'.overdueTaskIds[k] : k \in 1..Len(ret'.overdueTaskIds)}
            = {tasks[i].id : i \in {j \in 1..Len(tasks) :
                                      /\ tasks[j].status # "failed"
                                      /\ tasks'[j].status = "failed"}}
       /\ \A k, l \in 1..Len(ret'.overdueTaskIds) :
            ret'.overdueTaskIds[k] = ret'.overdueTaskIds[l] => k = l]_vars

\* The check has just failed one Task at a later tick than its due date and
\* left the other one, which has no due date, open.
C13_Witness ==
  /\ ret.op = "checkOverdueTasks"
  /\ Len(ret.overdueTaskIds) = 1
  /\ now > 0
  /\ \E i, j \in 1..Len(tasks) :
       /\ tasks[i].id = ret.overdueTaskIds[1]
       /\ tasks[i].status = "failed"
       /\ tasks[i].businessStatus = "overdue"
       /\ tasks[i].lastModified = toISOString(now)
       /\ tasks[j].status = "requested"
       /\ tasks[j].restriction.period.end = <<>>

C15_SecondOverdueCheckIsIdle ==
  ret.op = "checkOverdueTasks" =>
    /\ TasksAfterOverdueCheck(tasks, toISOString(now)) = tasks
    /\ \A k \in 1..Len(ret.overdueTaskIds) :
         \A l \in 1..Len(OverdueIds(tasks, toISOString(now))) :
           OverdueIds(tasks, toISOString(now))[l] # ret.overdueTaskIds[k]

\* A check has just failed a Task and returned its id.
C15_Witness ==
  /\ ret.op = "checkOverdueTasks"
  /\ ret.overdueTaskIds # <<>>
  /\ \E i \in 1..Len(tasks) :
       /\ tasks[i].status = "failed"
       /\ tasks[i].businessStatus = "overdue"
       /\ tasks[i].lastModified = toISOString(now)
       /\ now > 0

\* C16: the encounter store is a map by encounter id that only
\* processEncounter writes; each call stores the delivered encounter under
\* its id (replacing an older version, subject set to the resolved patient),
\* keeps every other entry, and does so whether or not the call matched or
\* routed.
C16_StoreHoldsLatestDelivery ==
  [][IF ret'.op = "processEncounter"
     THEN /\ DOMAIN encounters' = DOMAIN encounters \cup {ret'.encounter.id}
          /\ encounters'[ret'.encounter.id] =
               [ret'.encounter EXCEPT !.subject = Ref("Patient", ret'.patientId)]
          /\ \A id \in DOMAIN encounters \ {ret'.encounter.id} :
               encounters'[id] = encounters[id]
     ELSE encounters' = encounters]_vars

\* An encounter that was routed before is delivered again, finished, in a
\* call that neither matches nor routes; the store holds the finished
\* version, next to the entry of the other delivered id.
C16_Witness ==
  /\ ret.op = "processEncounter"
  /\ ret.bestMatch = <<>>
  /\ ~ret.routed
  /\ HasEvent(routedEvents, ret.encounterId)
  /\ ret.encounter.status = "finished"
  /\ encounters[ret.encounterId] = ret.encounter
  /\ Cardinality(DOMAIN encounters) = 2

\* C17: however often processEncounter is given the same encounter id, its
\* finished status included, no Task's output list holds the reference of an
\* encounter twice.
C17_NoDuplicateOutput ==
  \A i \in 1..Len(tasks) :
    \A k, l \in 1..Len(tasks[i].output) :
      tasks[i].output[k] = tasks[i].output[l] => k = l

\* The finished encounter that completed the Task has been delivered again:
\* the call matched nothing and the output still holds its one reference.
C17_Witness ==
  /\ ret.op = "processEncounter"
  /\ ret.encounter.status = "finished"
  /\ ret.bestMatch = <<>>
  /\ \E i \in 1..Len(tasks) :
       /\ tasks[i].status = "completed"
       /\ tasks[i].output = <<Ref("Encounter", ret.encounterId)>>

\* C18: a processEncounter call looks up the preference of the patient with,
\* and reports as routedTo, the requester of the first referral that is open
\* before the call updates any Task, whichever referral matched; so a
\* finished encounter that completes the patient's only open referral is
\* routed in that very call when the preference is active referrals-only.
C18_ProviderIsFirstOpenBeforeUpdate ==
  [][ret'.op = "processEncounter" =>
       IF getOpenReferrals(ret'.patientId) = <<>> THEN ~ret'.routed
       ELSE /\ ret'.routed =
                 DecisionTable(
                   PreferenceState(
                     getSharingPreference(
                       ret'.patientId,
                       getOpenReferrals(ret'.patientId)[1].serviceRequest.requester)),
                   ret'.bestMatch # <<>>)
            /\ ret'.routed =>
                 ret'.routedTo =
                   getOpenReferrals(ret'.patientId)[1].serviceRequest.requester
            /\ (/\ Len(getOpenReferrals(ret'.patientId)) = 1
                /\ ret'.encounter.status = "finished"
                /\ ret'.bestMatch # <<>>
                /\ PreferenceState(
                     getSharingPreference(
                       ret'.patientId,
                       getOpenReferrals(ret'.patientId)[1].serviceRequest.requester))
                   = "referrals-only")
               => /\ ret'.routed
                  /\ OpenFrom(tasks', ret'.patientId) = <<>>]_vars

\* An encounter that matched the second physician's referral was routed to
\* the first physician, whose referral was the first open one.
C18_Witness ==
  /\ ret.op = "processEncounter"
  /\ ret.routed
  /\ ret.bestMatch # <<>>
  /\ serviceRequests[ret.bestMatch[1].serviceRequestId].requester # ret.routedTo
  /\ ret.routedTo = Ref("Practitioner", "dr-smith")

\* The Task list a processEncounter call for this encounter leaves when only
\* the patient's referrals and the match are looked at; no sharing preference
\* is read.
TasksByMatchAlone(encounterIn) ==
  LET patientId == resolvePatientId(StripPrefix(encounterIn.subject, "Patient"))
      encounter == [encounterIn EXCEPT !.subject = Ref("Patient", patientId)]
      best == BestMatch(matchEncounterToReferrals(encounter,
                                                  getOpenReferrals(patientId),
                                                  buildMatchContext))
  IN IF best # <<>>
     THEN updateTaskForEncounter(tasks, best[1].taskId, encounter,
                                 toISOString(now))
     ELSE tasks

\* C19: what a processEncounter call does to the Tasks is fixed by the Tasks,
\* the referrals and the encounter alone: status, business status and output
\* of every Task after the call are those the match alone gives, whichever
\* sharing preference (absent, inactive, referrals-only, all-encounters) is
\* stored, and setting a preference changes no Task. Two runs that differ
\* only in the preferences therefore keep identical Tasks step by step.
C19_TasksIndependentOfConsent ==
  [][/\ ret'.op = "processEncounter" =>
          \E expected \in {TasksByMatchAlone(ret'.encounter)} :
            /\ Len(tasks') = Len(expected)
            /\ \A i \in 1..Len(expected) :
                 /\ tasks'[i].id = expected[i].id
                 /\ tasks'[i].status = expected[i].status
                 /\ tasks'[i].businessStatus = expected[i].businessStatus
                 /\ tasks'[i].output = expected[i].output
     /\ ret'.op = "setSharingPreference" => tasks' = tasks]_vars

\* With no sharing preference stored at all, a finished encounter matched,
\* was not routed, and completed the Task.
C19_Witness ==
  /\ ret.op = "processEncounter"
  /\ ret.bestMatch # <<>>
  /\ ~ret.routed
  /\ DOMAIN sharingPreferences = {}
  /\ \E i \in 1..Len(tasks) :
       /\ tasks[i].id = ret.taskUpdated
       /\ tasks[i].status = "completed"
       /\ tasks[i].output = <<Ref("Encounter", ret.encounterId)>>

\* The canonical id of a subject id: the patient of the first broker session
\* whose sourceId is that id, the id itself when no session has it.
CanonicalId(raw) ==
  LET mapping == {i \in 1..Len(brokerSessions) : brokerSessions[i].sourceId = raw}
  IN IF mapping = {} THEN raw
     ELSE brokerSessions[CHOOSE i \in mapping : \A j \in mapping : i <= j].patientId

\* C20: a processEncounter call returns as patientId the canonical id of the
\* encounter's subject (unchanged when no broker session maps it), stores the
\* encounter with that id as subject, and a Routed Event of the call carries
\* it, as patientId and in its encounter; the stored subject is no id that a
\* broker session maps at that time.
C20_SubjectIsCanonical ==
  [][ret'.op = "processEncounter" =>
       \E canonical \in {CanonicalId(StripPrefix(ret'.encounter.subject, "Patient"))} :
         /\ ret'.patientId = canonical
         /\ encounters'[ret'.encounter.id] =
              [ret'.encounter EXCEPT !.subject = Ref("Patient", canonical)]
         /\ \A i \in 1..Len(brokerSessions) :
              brokerSessions[i].sourceId
                # StripPrefix(encounters'[ret'.encounter.id].subject, "Patient")
         /\ ret'.routed =>
              \E k \in 1..Len(routedEvents') :
                /\ routedEvents'[k].encounterId = ret'.encounter.id
                /\ routedEvents'[k].patientId = canonical
                /\ routedEvents'[k].encounter.subject = Ref("Patient", canonical)]_vars

\* An encounter delivered under the EHR's id mercy-1 was resolved to
\* patient-001, stored and routed under that id, while a later session of
\* patient-002 maps mercy-1 as well.
C20_Witness ==
  /\ ret.op = "processEncounter"
  /\ ret.encounter.subject = Ref("Patient", "mercy-1")
  /\ ret.patientId = "patient-001"
  /\ encounters[ret.encounterId].subject = Ref("Patient", "patient-001")
  /\ ret.routed
  /\ \E k \in 1..Len(routedEvents) :
       /\ routedEvents[k].encounterId = ret.encounterId
       /\ routedEvents[k].patientId = "patient-001"
  /\ Len(brokerSessions) = 2
  /\ brokerSessions[2].sourceId = "mercy-1"

\* C21: a processEncounter call changes status, business status and output
\* of no Task other than the one of its best match; with no best match it
\* changes none. The number and the ids of the Tasks stay as they were.
C21_OnlyBestMatchTaskChanges ==
  [][ret'.op = "processEncounter" =>
       /\ Len(tasks') = Len(tasks)
       /\ \A i \in 1..Len(tasks) :
            /\ tasks'[i].id = tasks[i].id
            /\ (ret'.bestMatch = <<>> \/ tasks[i].id # ret'.bestMatch[1].taskId)
               => /\ tasks'[i].status = tasks[i].status
                  /\ tasks'[i].businessStatus = tasks[i].businessStatus
                  /\ tasks'[i].output = tasks[i].output]_vars

\* With two referrals open, a planned Mercy encounter matched the first: its
\* Task is in progress, the Task of the Valley referral is still requested.
C21_Witness ==
  /\ ret.op = "processEncounter"
  /\ ret.bestMatch # <<>>
  /\ Len(tasks) = 2
  /\ ret.bestMatch[1].taskId = tasks[1].id
  /\ tasks[1].status = "in-progress"
  /\ tasks[1].businessStatus = "appointment-scheduled"
  /\ tasks[2].status = "requested"
  /\ tasks[2].output = <<>>

\* C22: the preference map holds one value per (patient, provider) pair,
\* each under the key of its own pair; after setSharingPreference,
\* getSharingPreference of that pair returns the value just set and returns
\* for every other pair what it returned before.
C22_OnePreferencePerPair ==
  /\ [](\A k \in DOMAIN sharingPreferences :
          PrefKey(sharingPreferences[k].patientId,
                  sharingPreferences[k].physicianRef) = k)
  /\ [][ret'.op = "setSharingPreference" =>
          \A p \in PatientIds, d \in {"dr-smith", "pract-pcp"} :
            getSharingPreference(p, Ref("Practitioner", d))' =
              IF /\ p = ret'.pref.patientId
                 /\ Ref("Practitioner", d) = ret'.pref.physicianRef
              THEN <<ret'.pref>>
              ELSE getSharingPreference(p, Ref("Practitioner", d))]_vars

\* patient-001 has just set an all-encounters preference with dr-smith and
\* reads it back, while the three other pairs hold preferences of their
\* own, patient-002's with dr-smith being referrals-only.
C22_Witness ==
  /\ ret.op = "setSharingPreference"
  /\ ret.pref.patientId = "patient-001"
  /\ ret.pref.physicianRef = Ref("Practitioner", "dr-smith")
  /\ ret.pref.mode = "all-encounters"
  /\ getSharingPreference("patient-001", Ref("Practitioner", "dr-smith"))
       = <<ret.pref>>
  /\ Cardinality(DOMAIN sharingPreferences) = 4
  /\ getSharingPreference("patient-002", Ref("Practitioner", "dr-smith"))[1].mode
       = "referrals-only"

\* C23: after every creation through POST /physician/referral each stored
\* referral has exactly one Task whose focus it is, and the creation leaves
\* every earlier referral and every earlier Task in the store as it was, one
\* new Task being added, also when it falls in the same tick of the clock as
\* an earlier creation.
C23_CreationNeverOverwrites ==
  [][ret'.op = "createReferral" =>
       /\ \A k \in DOMAIN serviceRequests' :
            Cardinality({i \in 1..Len(tasks') :
                           tasks'[i].focus = Ref("ServiceRequest", k)}) = 1
       /\ \A k \in DOMAIN serviceRequests :
            k \in DOMAIN serviceRequests' /\ serviceRequests'[k] = serviceRequests[k]
       /\ Len(tasks') = Len(tasks) + 1
       /\ \A i \in 1..Len(tasks) : tasks'[i] = tasks[i]]_vars

\* C24: the result of a processEncounter call has taskUpdated set, to the
\* Task id of the top match result, exactly when that result scores at least
\* 0.70 (it is then the best match); otherwise taskUpdated is undefined.
C24_TaskUpdatedIffBestMatch ==
  ret.op = "processEncounter" =>
    /\ ret.taskUpdated =
         (IF /\ Len(ret.matchResults) > 0
             /\ ret.matchResults[1].score.num * 100
                  >= 70 * ret.matchResults[1].score.den
          THEN ret.matchResults[1].taskId
          ELSE None)
    /\ (ret.bestMatch # <<>>) <=> (ret.taskUpdated # None)
    /\ ret.bestMatch # <<>> => ret.taskUpdated = ret.bestMatch[1].taskId

\* A call whose top result scored 0.70, the threshold itself, reported the
\* Task of that result as updated.
C24_Witness ==
  /\ ret.op = "processEncounter"
  /\ ret.bestMatch # <<>>
  /\ ret.bestMatch[1].score.num * 100 = 70 * ret.bestMatch[1].score.den
  /\ ret.taskUpdated = "task-001"

\* C25: no Match Result returned by matchEncounterToReferrals scores below
\* 0.10, whatever the encounter, the referral list and the lookup context.
C25_NoResultBelowMinimum ==
  ret.op = "matchEncounterToReferrals" =>
    \A k \in 1..Len(ret.results) :
      ret.results[k].score.num * 100 >= 10 * ret.results[k].score.den

\* The referral whose only agreement with the encounter is a third of the
\* organization name (score 0.067) is left out; the other one, which agrees
\* on two thirds of the name and on the date, is returned.
C25_Witness ==
  /\ ret.op = "matchEncounterToReferrals"
  /\ Len(ret.openReferrals) = 2
  /\ ret.openReferrals[1].task.id = "task-name-only"
  /\ ret.openReferrals[2].task.id = "task-name-specialty"
  /\ ret.encounter.serviceProvider # <<>>
  /\ ret.encounter.serviceProvider[1].display = NameMercyTypo
  /\ fuzzyNameMatch(NameValley, NameMercyTypo) = Rat(1, 3)
  /\ ~StrLE(ret.openReferrals[1].serviceRequest.occurrencePeriod[1].start,
            ret.encounter.period.start)
  /\ Len(ret.results) = 1
  /\ ret.results[1].taskId = "task-name-specialty"

\* C26: every Match Result returned by matchEncounterToReferrals has
\* confidence high exactly when its score is at least 0.70, medium exactly
\* when it is at least 0.40 and below 0.70, low exactly when it is below 0.40.
C26_ConfidenceFollowsScore ==
  ret.op = "matchEncounterToReferrals" =>
    \A k \in 1..Len(ret.results) :
      LET score == ret.results[k].score
          confidence == ret.results[k].confidence
      IN /\ confidence \in {"high", "medium", "low"}
         /\ (confidence = "high") <=> (score.num * 100 >= 70 * score.den)
         /\ (confidence = "medium") <=> (/\ score.num * 100 >= 40 * score.den
                                         /\ score.num * 100 < 70 * score.den)
         /\ (confidence = "low") <=> (score.num * 100 < 40 * score.den)

\* One call returned a result with confidence high and one of score 0.40,
\* the lower edge of medium, with confidence medium.
C26_Witness ==
  /\ ret.op = "matchEncounterToReferrals"
  /\ \E k, l \in 1..Len(ret.results) :
       /\ ret.results[k].confidence = "high"
       /\ ret.results[l].score.num * 100 = 40 * ret.results[l].score.den
       /\ ret.results[l].confidence = "medium"

\* C27: the list matchEncounterToReferrals returns is in non-increasing
\* order of score, in whatever order the referrals were given.
C27_ResultsSortedByScore ==
  ret.op = "matchEncounterToReferrals" =>
    \A k, l \in 1..Len(ret.results) :
      k < l =>
        ret.results[k].score.num * ret.results[l].score.den
          >= ret.results[l].score.num * ret.results[k].score.den

\* The referral given second scored higher than the one given first and is
\* returned first.
C27_Witness ==
  /\ ret.op = "matchEncounterToReferrals"
  /\ Len(ret.openReferrals) = 2
  /\ Len(ret.results) = 2
  /\ ret.results[1].taskId = ret.openReferrals[2].task.id
  /\ ret.results[2].taskId = ret.openReferrals[1].task.id
  /\ ret.results[1].score.num * ret.results[2].score.den
       > ret.results[2].score.num * ret.results[1].score.den

\* C28: the score of every Match Result is 0.35 for a true organization
\* identifier signal, plus 0.25 for a true practitioner identifier signal,
\* plus 0.10 for a true specialty signal, plus 0.10 for a true date-in-window
\* signal, plus 0.20 times the organization-name similarity of its signal
\* breakdown; the similarity and the score lie in [0, 1].
C28_ScoreIsWeightedSum ==
  ret.op = "matchEncounterToReferrals" =>
    \A k \in 1..Len(ret.results) :
      LET score == ret.results[k].score
          sig == ret.results[k].signals
          hundredths == (IF sig.orgNpi THEN 35 ELSE 0)
                        + (IF sig.practitionerNpi THEN 25 ELSE 0)
                        + (IF sig.specialty THEN 10 ELSE 0)
                        + (IF sig.dateInWindow THEN 10 ELSE 0)
      IN /\ score.den > 0 /\ sig.orgName.den > 0
         /\ sig.orgName.num >= 0 /\ sig.orgName.num <= sig.orgName.den
         /\ score.num * 100 * sig.orgName.den
              = (hundredths * sig.orgName.den + 20 * sig.orgName.num) * score.den
         /\ score.num >= 0 /\ score.num <= score.den

\* A result whose organization name is two thirds similar and whose date
\* signal is true, the others false: score 0.20 * 2/3 + 0.10 = 7/30.
C28_Witness ==
  /\ ret.op = "matchEncounterToReferrals"
  /\ \E k \in 1..Len(ret.results) :
       /\ ret.results[k].signals.orgName.num * 3
            = 2 * ret.results[k].signals.orgName.den
       /\ ret.results[k].signals.dateInWindow
       /\ ~ret.results[k].signals.orgNpi
       /\ ~ret.results[k].signals.practitionerNpi
       /\ ~ret.results[k].signals.specialty
       /\ ret.results[k].score.num * 30 = 7 * ret.results[k].score.den

\* C29: a referral that sets none of organization identifier, organization
\* name and practitioner identifier has no Match Result in the list
\* matchEncounterToReferrals returns, also when its specialty code and its
\* date window agree with the encounter; the call returns a list all the same.
C29_UntargetedReferralSkipped ==
  ret.op = "matchEncounterToReferrals" =>
    /\ \A i \in 1..Len(ret.openReferrals) :
         (LET targets == getTargetIdentifiers(ret.openReferrals[i].serviceRequest)
          IN /\ ~Truthy(targets.orgNpi)
             /\ targets.orgName = <<>>
             /\ ~Truthy(targets.practitionerNpi))
         => \A k \in 1..Len(ret.results) :
              /\ ret.results[k].serviceRequestId
                   # ret.openReferrals[i].serviceRequest.id
              /\ ret.results[k].taskId # ret.openReferrals[i].task.id
    /\ Len(ret.results) <= Len(ret.openReferrals)

\* A cardiology encounter inside the date window was matched against the
\* referral that names the specialty only and against the Mercy referral:
\* only the Mercy referral has a result.
C29_Witness ==
  /\ ret.op = "matchEncounterToReferrals"
  /\ Len(ret.openReferrals) = 2
  /\ ret.openReferrals[1].task.id = "task-no-target"
  /\ ret.openReferrals[2].task.id = "task-mercy"
  /\ ret.context = buildMatchContext
  /\ ret.encounter.participant # <<>>
  /\ specialtyLookup(ret.encounter.participant[1].reference) = "207RC0000X"
  /\ ret.encounter.period.start # <<>>
  /\ Len(ret.results) = 1
  /\ ret.results[1].taskId = "task-mercy"

\* C30: for an encounter that names no service provider,
\* matchEncounterToReferrals returns the empty list for every referral list
\* and context, and a processEncounter call has no match result, no best
\* match, no updated Task, and leaves every Task as it was.
C30_NoProviderNoMatch ==
  [][/\ (/\ ret'.op = "matchEncounterToReferrals"
         /\ ret'.encounter.serviceProvider = <<>>)
        => ret'.results = <<>>
     /\ (/\ ret'.op = "processEncounter"
         /\ ret'.encounter.serviceProvider = <<>>)
        => /\ ret'.matchResults = <<>>
           /\ ret'.bestMatch = <<>>
           /\ ret'.taskUpdated = None
           /\ tasks' = tasks]_vars

\* A finished visit with Dr. Johnson that names no service provider was
\* processed while the Mercy referral, which names Dr. Johnson, was open:
\* no result, and the Task is still as it was created.
C30_Witness ==
  /\ ret.op = "processEncounter"
  /\ ret.encounter.serviceProvider = <<>>
  /\ ret.encounter.participant # <<>>
  /\ ret.encounter.status = "finished"
  /\ ret.matchResults = <<>>
  /\ ret.bestMatch = <<>>
  /\ getOpenReferrals(ret.patientId) # <<>>
  /\ tasks[1].status = "requested"
  /\ tasks[1].lastModified = toISOString(0)
  /\ ret.encounterId \in DOMAIN encounters


\* C31: for all strings a, b, s of the bounded alphabet and length,
\* levenshteinDistance(s, s) = 0, levenshteinDistance(a, b) =
\* levenshteinDistance(b, a), and the distance from the empty string to s is
\* the length of s.
C31_DistanceLaws ==
  ret.op = "levenshteinDistance" =>
    /\ (ret.a = ret.b => ret.result = 0)
    /\ ret.result = ret.swapped
    /\ (ret.a = <<>> => ret.result = Len(ret.b))

\* The distance of two different non-empty strings of different lengths is
\* computed, both ways round, and is positive.
C31_Witness ==
  /\ ret.op = "levenshteinDistance"
  /\ ret.a = <<"p", "a">>
  /\ ret.b = <<"a", "P", "a">>
  /\ ret.result = 2
  /\ ret.swapped = 2

\* Two characters are the same letter in either case, or the same character.
SameLetter(c, d) ==
  \/ c = d
  \/ \E i \in 1..Len(UpperChars) :
       {c, d} = {UpperChars[i], LowerChars[i]}

\* C32: fuzzyNameMatch(a, b) lies in [0, 1], is exactly 1 for a = b, and is
\* exactly 1 for two names that differ only in letter case.
C32_SimilarityRangeAndCase ==
  ret.op = "fuzzyNameMatch" =>
    /\ ret.result.den > 0
    /\ ret.result.num >= 0
    /\ ret.result.num <= ret.result.den
    /\ (ret.a = ret.b => ret.result = Rat(1, 1))
    /\ ( ( /\ Len(ret.a) = Len(ret.b)
           /\ \A i \in 1..Len(ret.a) : SameLetter(ret.a[i], ret.b[i]) )
         => ret.result = Rat(1, 1) )

\* Two names that differ in letter case and in nothing else are compared.
C32_Witness ==
  /\ ret.op = "fuzzyNameMatch"
  /\ ret.a = <<"P", "a", "p">>
  /\ ret.b = <<"p", "a", "P">>
  /\ ret.result = Rat(1, 1)


\* The referral of the list a Match Result belongs to.
ReferralOfResult(openReferrals, result) ==
  openReferrals[CHOOSE i \in 1..Len(openReferrals) :
                  openReferrals[i].task.id = result.taskId]

\* The practitioner identifier of the encounter's first participant: what
\* the context's practitioner lookup yields for its reference, else what the
\* participant embeds under the NPI system, else nothing.
PractitionerIdentifierOf(encounter, context) ==
  IF encounter.participant = <<>> THEN None
  ELSE LET first == encounter.participant[1]
           looked == IF first.reference # <<>> /\ context.practitionerNpiLookup # <<>>
                     THEN practitionerNpiLookup(first.reference) ELSE None
       IN IF looked # None THEN looked
          ELSE IF first.identifier # <<>> /\ first.identifier[1].system = NPI_SYSTEM
               THEN first.identifier[1].value
               ELSE None

\* C33: in every Match Result the practitioner-identifier signal is true
\* exactly when the referral's target practitioner identifier is set and
\* equals the identifier the practitioner lookup yields for the encounter's
\* first participant, or, when the lookup yields nothing, the identifier
\* embedded on that participant.
C33_PractitionerSignalLookupFirst ==
  ret.op = "matchEncounterToReferrals" =>
    \A k \in 1..Len(ret.results) :
      LET target == getTargetIdentifiers(
                      ReferralOfResult(ret.openReferrals, ret.results[k])
                        .serviceRequest).practitionerNpi
      IN ret.results[k].signals.practitionerNpi
           <=> ( /\ target # None
                 /\ target = PractitionerIdentifierOf(ret.encounter, ret.context) )

\* The encounter that refers to Dr. Smith and embeds Dr. Johnson's NPI was
\* matched against the referral to Dr. Johnson with the lookups of the
\* store: the lookup's answer is used and the signal is false.
C33_Witness ==
  /\ ret.op = "matchEncounterToReferrals"
  /\ ret.context = buildMatchContext
  /\ ret.encounter.participant # <<>>
  /\ ret.encounter.participant[1].reference = Ref("Practitioner", "dr-smith")
  /\ ret.encounter.participant[1].identifier # <<>>
  /\ ret.encounter.participant[1].identifier[1].value = "9876543210"
  /\ Len(ret.results) = 1
  /\ ret.results[1].taskId = "task-mercy"
  /\ ~ret.results[1].signals.practitionerNpi

\* C34: in every Match Result the date-in-window signal is true exactly
\* when the encounter has a period start whose date is not before the start
\* date of the referral's window and not after its end date, a bound that
\* is not set imposing no constraint.
C34_DateSignalInclusive ==
  ret.op = "matchEncounterToReferrals" =>
    \A k \in 1..Len(ret.results) :
      LET sr == ReferralOfResult(ret.openReferrals, ret.results[k]).serviceRequest
          encDate == ret.encounter.period.start
          windowStart == IF sr.occurrencePeriod = <<>> THEN <<>>
                         ELSE sr.occurrencePeriod[1].start
          windowEnd == IF sr.occurrencePeriod = <<>> THEN <<>>
                       ELSE sr.occurrencePeriod[1].end
      IN ret.results[k].signals.dateInWindow
           <=> ( /\ encDate # <<>>
                 /\ (windowStart = <<>> \/ windowStart[1] <= encDate[1])
                 /\ (windowEnd = <<>> \/ encDate[1] <= windowEnd[1]) )


\* C37: in every state reached by whole processEncounter and
\* checkOverdueTasks calls from the tracking records the factory creates, a
\* requested Task is awaiting-scheduling, an in-progress Task is
\* appointment-scheduled or encounter-in-progress, a completed Task is
\* loop-closed and a failed Task is overdue.
C37_StatusPairedWithBusinessStatus ==
  \A i \in 1..Len(tasks) :
    /\ tasks[i].status = "requested"
         => tasks[i].businessStatus = "awaiting-scheduling"
    /\ tasks[i].status = "in-progress"
         => tasks[i].businessStatus \in {"appointment-scheduled",
                                         "encounter-in-progress"}
    /\ tasks[i].status = "completed"
         => tasks[i].businessStatus = "loop-closed"
    /\ tasks[i].status = "failed"
         => tasks[i].businessStatus = "overdue"

\* The overdue check has just failed a Task that an encounter had brought to
\* in-progress before.
C37_Witness ==
  /\ ret.op = "checkOverdueTasks"
  /\ ret.overdueTaskIds = <<"task-001">>
  /\ tasks[1].status = "failed"
  /\ tasks[1].businessStatus = "overdue"
  /\ DOMAIN encounters # {}

\* C38: a Task's output list is non-empty exactly when the Task is
\* completed; a processEncounter call that completes a Task was given a
\* finished encounter and leaves exactly one reference in the output, to
\* that encounter, and no other step changes an output list.
C38_OutputIffCompleted ==
  /\ [](\A i \in 1..Len(tasks) :
          /\ (tasks[i].output # <<>>) <=> (tasks[i].status = "completed")
          /\ Len(tasks[i].output) <= 1)
  /\ [][\A i \in 1..Len(tasks) :
          IF tasks[i].status # "completed" /\ tasks'[i].status = "completed"
          THEN /\ ret'.op = "processEncounter"
               /\ ret'.encounter.status = "finished"
               /\ tasks'[i].output = <<Ref("Encounter", ret'.encounterId)>>
          ELSE tasks'[i].output = tasks[i].output]_vars

\* A second encounter id was processed after the first one, finished, had
\* completed the Task: the output still names the first encounter alone.
C38_Witness ==
  /\ ret.op = "processEncounter"
  /\ ret.encounterId = "enc-2"
  /\ tasks[1].status = "completed"
  /\ tasks[1].output = <<Ref("Encounter", "enc-1")>>
  /\ "enc-1" \in DOMAIN encounters


\* The Tasks of one patient, in the order of the Map.
TasksOfPatient(patientId) ==
  SelectSeq(tasks, LAMBDA task : task.for = Ref("Patient", patientId))

\* The preference of the patient with the physician among the patient's own
\* preferences: <<>> when the patient set none.
OwnPreference(patientId, physicianRef) ==
  LET own == {k \in DOMAIN sharingPreferences :
                /\ sharingPreferences[k].patientId = patientId
                /\ sharingPreferences[k].physicianRef = physicianRef}
  IN IF own = {} THEN <<>> ELSE <<sharingPreferences[CHOOSE k \in own : TRUE]>>

\* C39: a processEncounter call whose resolved patient is P changes no Task
\* of another patient; its match results are those of P's own open
\* referrals, its routing decision is the one of P's own preference with the
\* requester of P's first open referral, and the only Routed Event it
\* creates or replaces is the one of its encounter, for P and that requester.
C39_OnlyOwnReferralsAndPreferences ==
  [][ret'.op = "processEncounter" =>
       \E P \in {ret'.patientId} :
       \E own \in {OpenFrom(TasksOfPatient(P), P)} :
         /\ Len(tasks') = Len(tasks)
         /\ \A i \in 1..Len(tasks) :
              tasks[i].for # Ref("Patient", P) => tasks'[i] = tasks[i]
         /\ ret'.matchResults =
              matchEncounterToReferrals(
                [ret'.encounter EXCEPT !.subject = Ref("Patient", P)],
                own, buildMatchContext)
         /\ ret'.routed =
              (/\ own # <<>>
               /\ DecisionTable(
                    PreferenceState(
                      OwnPreference(P, own[1].serviceRequest.requester)),
                    ret'.bestMatch # <<>>))
         /\ IF ret'.routed
            THEN /\ ret'.routedTo = own[1].serviceRequest.requester
                 /\ \E k \in 1..Len(routedEvents') :
                      /\ routedEvents'[k].encounterId = ret'.encounterId
                      /\ routedEvents'[k].patientId = P
                      /\ routedEvents'[k].physicianRef = ret'.routedTo
                      /\ \A j \in 1..Len(routedEvents) :
                           j # k => routedEvents'[j] = routedEvents[j]
            ELSE routedEvents' = routedEvents]_vars

\* An encounter of patient-002 was processed while patient-001 shares
\* everything with dr-smith and patient-002 has deactivated the preference:
\* it advanced patient-002's Task, left patient-001's requested and was not
\* routed.
C39_Witness ==
  /\ ret.op = "processEncounter"
  /\ ret.patientId = "patient-002"
  /\ ret.bestMatch # <<>>
  /\ ~ret.routed
  /\ Len(tasks) = 2
  /\ tasks[1].for = Ref("Patient", "patient-001")
  /\ tasks[1].status = "requested"
  /\ tasks[2].for = Ref("Patient", "patient-002")
  /\ tasks[2].status = "in-progress"
  /\ PrefKey("patient-001", Ref("Practitioner", "dr-smith"))
       \in DOMAIN sharingPreferences
  /\ sharingPreferences[PrefKey("patient-001",
                                Ref("Practitioner", "dr-smith"))].active
  /\ sharingPreferences[PrefKey("patient-001",
                                Ref("Practitioner", "dr-smith"))].mode
       = "all-encounters"
  /\ PrefKey("patient-002", Ref("Practitioner", "dr-smith"))
       \in DOMAIN sharingPreferences
  /\ ~sharingPreferences[PrefKey("patient-002",
                                 Ref("Practitioner", "dr-smith"))].active


\* C36: when a stream is cancelled, exactly the client that stream
\* registered leaves the client list and every other client stays, in its
\* place, however many clients connected and disconnected before.
C36_CancelRemovesOwnClient ==
  [][ret'.op = "cancel" =>
       sseClients' = SelectSeq(sseClients, LAMBDA c : c.id # ret'.id)]_vars


\* The streams on which the step enqueued an event of the patient channel.
NewPatientDeliveries ==
  {n \in 1..Len(streams) :
     \E m \in streams'[n].enqueued \ streams[n].enqueued : m.channel = "patient"}

\* The registration of stream n in the client list, as a set.
ClientsOfStream(n) ==
  {sseClients[i] : i \in {j \in 1..Len(sseClients) : sseClients[j].id = n}}

PrecedingStep(step) ==
  CASE step = "register" -> "verify-identity"
    [] step = "authorize" -> "register"
    [] step = "subscribe" -> "authorize"
    [] step = "complete-onboarding" -> "subscribe"

\* C35: a register, authorize, subscribe or complete-onboarding request that
\* arrives when the preceding step has not been answered 200 since the
\* patient's last verify-identity is answered 400 and leaves the onboarding
\* state and the broker sessions unchanged.
C35_StepOrderEnforced ==
  [][( /\ ret'.op \in {"register", "authorize", "subscribe",
                       "complete-onboarding"}
       /\ ret'.event = "invoked"
       /\ <<ret'.patientId, PrecedingStep(ret'.op)>> \notin stepsDone )
     => ( /\ ret'.status = 400
          /\ UNCHANGED <<onboardingStates, stateObjects, brokerSessions>> )]_vars

====
